---- MODULE Spec2Model ----
(***************************************************************************)
(* Process graph of the monolithic kernel layer: task extensions, clone,  *)
(* exec, wait_pid, exit, and the boot loop that spawns the user tasks;     *)
(* the per-task heap manager, the time accountant and the trap registry;  *)
(* sys_getdents64, the ELF parser, LazyInit and ctor_bare.                 *)
(***************************************************************************)
EXTENDS Integers, Sequences, FiniteSets, TLC

(* ---------------------------------------------------------------------- *)
(* Bounds                                                                  *)
(* ---------------------------------------------------------------------- *)
\* largest task identifier the allocator hands out
MaxTid == 4
\* largest number of TLB flushes (exec calls that pass the ownership check)
MaxFlush == 1
\* pages in the user heap window (USER_HEAP_SIZE / 4 KiB)
HeapPages == 2
\* largest value the tick source returns
MaxTick == 3
\* largest number of enter_uspace / enter_kspace calls on one TimeStat
MaxCalls == 4
\* largest number of handlers registered in one slice of the trap registry
MaxHandlers == 2
\* largest number of entries in a directory
MaxEntries == 2
\* largest buffer length passed to sys_getdents64
MaxBufLen == 72
\* largest number of program headers in an ELF file
MaxPhdrs == 2
\* largest number of entries in the .rela.dyn section of an ELF file
MaxRelocs == 2
\* number of threads that share one LazyInit
MaxThreads == 3
\* mappings one heap page is followed up to
MaxMappings == 2
\* manual calls the test body makes of constructors and of call_ctors
MaxManual == 3

(* ---------------------------------------------------------------------- *)
(* Constants of the program                                                *)
(* ---------------------------------------------------------------------- *)
\* the kernel task running main(): it has no task extension
MainTid == 1
\* WaitFlags::WNOHANG
WNOHANG == 1
\* a0 of the first user context, UspaceContext::new(entry, ustack_top, 2333)
BootArg == 2333

Tids == (MainTid + 1)..MaxTid
NoTask == 0
NullPtr == 0
\* user addresses a syscall argument may point to
UserAddrs == {1}
UserPtrs == {NullPtr} \cup UserAddrs
ExitStatuses == {0, 1}
\* the user_stack argument the test case passes to clone (0: none)
Stacks(prog) == IF prog = "clone" THEN {0, 1} ELSE {0}
\* test cases of main()'s list that the model runs
Programs == {"waitpid", "execve", "exit", "clone"}
\* the system calls each test case issues, in the task main() spawned and in
\* the tasks made by clone (where clone returned 0)
Issues(prog, cloned) ==
    CASE prog = "waitpid" -> IF cloned THEN {"clone", "exit", "exit_group"}
                             ELSE {"clone", "wait4", "exit"}
      [] prog = "execve"  -> IF cloned THEN {"execve", "exit"}
                             ELSE {"clone", "execve", "exit"}
      [] prog = "exit"    -> {"set_tid_address", "exit", "exit_group"}
      [] prog = "clone"   -> IF cloned THEN {"exit"} ELSE {"clone", "exit"}
      [] OTHER            -> {}
\* the lists of test cases main() walks through
TestLists == {<<p>> : p \in Programs} \cup {<<"exit", "waitpid">>}
\* the program execve is asked to load
ExecTargets == {"execve"}
WaitOptions == {0, WNOHANG}
\* content of user memory nobody has written yet
FreshMem == [a \in UserAddrs |-> -1]

VARIABLES
    nextTid,          \* axtask's id counter: the id TaskInner::new hands out next
    tstate,           \* task record: "Unused", "Running", "Exited", "Dropped"
    pc,               \* where each task is: "user" or a point inside wait_pid
    proc_id,          \* TaskExt.proc_id
    parent,           \* TaskExt.parent (Weak): id of the task it points to
    children,         \* TaskExt.children: Vec of strong task references
    childrenLocked,   \* TaskExt.children mutex is held
    clear_child_tid,  \* TaskExt.clear_child_tid
    uctx,             \* TaskExt.uctx
    name,             \* task name
    aspaceOf,         \* TaskExt.aspace: the address-space handle it holds
    aspace,           \* per handle: user areas and the mutex
    umem,             \* per handle: user memory words
    exit_code,        \* exit code stored by axtask::exit
    wait,             \* locals of a wait_pid call in progress
    last,             \* the last syscall return: task, syscall, value
    reaped,           \* ids some wait_pid has returned
    todo,             \* main(): the test cases not run yet
    mainPc,           \* main(): "spawn" or "join"
    mainTask,         \* main()'s user_task reference
    tlb_flushes,      \* calls of flush_tlb so far
    heap_top,         \* HeapManager.heap_top
    actual_heap_top,  \* HeapManager.actual_heap_top
    heap_map,         \* per heap page: mappings made by map_alloc and not unmapped
    heap_call,        \* the last set_heap_top call: argument, result, request made
    heap_hist,        \* what the set_heap_top calls so far have been
    ticks,            \* the last value axhal::time::current_ticks() returned
    user_time,        \* TimeStat.user_time
    kernel_time,      \* TimeStat.kernel_time
    last_user_time,   \* TimeStat.last_user_time
    last_kernel_time, \* TimeStat.last_kernel_time
    overflow_checks,  \* the build aborts on integer overflow (else it wraps)
    time_log,         \* what the calls on the TimeStat so far have been
    registry,         \* the handler slices of axhal::trap, filled at link time
    trap,             \* the trap dispatch in progress, or the last one done
    ub_checks,        \* the build checks pointer alignment before a dereference
    dir_mem,          \* user memory from the address sys_getdents64 is given
    getdents,         \* the sys_getdents64 call in progress, or the last one done
    elf,              \* the last call into the ELF parser: arguments and result
    inited,           \* LazyInit.inited
    data,             \* LazyInit.data
    callers,          \* per thread: its init_once / call_once call on the cell
    writes,           \* stores into LazyInit.data so far
    init_array,       \* the .init_array section: pointers to the constructors
    INIT_NUM,         \* test_ctor.rs: static INIT_NUM
    INIT_VEC,         \* test_ctor.rs: static INIT_VEC
    ctor_pc,          \* the program: startup, the test body, a call_ctors loop
    ctor_log          \* the constructors invoked so far, in order

vars == <<nextTid, tstate, pc, proc_id, parent, children, childrenLocked,
          clear_child_tid, uctx, name, aspaceOf, aspace, umem, exit_code, wait,
          last, reaped, todo, mainPc, mainTask, tlb_flushes,
          heap_top, actual_heap_top, heap_map, heap_call, heap_hist,
          ticks, user_time, kernel_time, last_user_time, last_kernel_time,
          overflow_checks, time_log, registry, trap,
          ub_checks, dir_mem, getdents, elf, inited, data, callers, writes,
          init_array, INIT_NUM, INIT_VEC, ctor_pc, ctor_log>>

taskVars == <<proc_id, parent, clear_child_tid, uctx, name, aspaceOf>>
waitVars == <<wait, childrenLocked, reaped>>
mainVars == <<todo, mainPc, mainTask>>
procVars == <<nextTid, tstate, pc, proc_id, parent, children, childrenLocked,
              clear_child_tid, uctx, name, aspaceOf, aspace, umem, exit_code,
              wait, last, reaped, todo, mainPc, mainTask, tlb_flushes>>
heapVars == <<heap_top, actual_heap_top, heap_map, heap_call, heap_hist>>
timeVars == <<ticks, user_time, kernel_time, last_user_time, last_kernel_time,
              overflow_checks, time_log>>
trapVars == <<registry, trap>>
dirVars == <<ub_checks, dir_mem, getdents>>
\* the state of the library routines that are exercised on their own
elfVars == <<elf>>
lazyVars == <<inited, data, callers, writes>>
ctorVars == <<init_array, INIT_NUM, INIT_VEC, ctor_pc, ctor_log>>
libVars == <<dirVars, elfVars, lazyVars, ctorVars>>
\* the state of the components that are exercised on their own
unitVars == <<heapVars, timeVars, trapVars, libVars>>

(* ---------------------------------------------------------------------- *)
(* Helpers                                                                 *)
(* ---------------------------------------------------------------------- *)
\* *exit_code_ptr when wait_pid has not stored through it
NotWritten == 0 - 1
NoWait == [pid |-> 0, ptr |-> NullPtr, opt |-> 0, idx |-> 0,
           answer_status |-> "NotExist", answer_id |-> 0, exit_task_id |-> 0,
           status |-> NotWritten]
NoUctx == [ip |-> <<"none", "none">>, sp |-> 0, a0 |-> 0]
NoName == <<"none">>
\* last.status is *exit_code_ptr as the returning wait4 left it
NoReturn == [task |-> NoTask, sys |-> "none", ret |-> 0, status |-> NotWritten]
Returns(t, sys, v) ==
    last' = [task |-> t, sys |-> sys, ret |-> v, status |-> NotWritten]
NoAreas == [kind |-> "none", prog |-> "none"]
FreshAspace == [areas |-> NoAreas, locked |-> FALSE]

\* TaskInner::id_name(): "Task(<id>, <name>)"
id_name(t) == <<"Task", t, name[t]>>

\* Arc::strong_count of the handle: the task extensions that hold it
strong_count(h) == Cardinality({u \in Tids : aspaceOf[u] = h})

\* i32 << 8: the top 8 bits are lost, bit 23 becomes the sign
Shl8(x) ==
    LET low == x % 16777216
    IN IF low >= 8388608 THEN (low - 16777216) * 256 ELSE low * 256

SeqToSet(s) == {s[i] : i \in 1..Len(s)}

\* a remove that ignores the index and takes the head of the list
RemoveAt_First(s, i) == Tail(s)

\* Vec::remove(index), index counted from 1
RemoveAt(s, i) == [j \in 1..(Len(s) - 1) |-> IF j < i THEN s[j] ELSE s[j + 1]]

\* the task holds the mutex of its own address space
AspaceFree(t) == ~aspace[aspaceOf[t]].locked

InUser(t) == t \in Tids /\ tstate[t] = "Running" /\ pc[t] = "user"

\* task t runs in user mode and its program issues the system call
Calls(t, sys) ==
    /\ InUser(t)
    /\ sys \in Issues(aspace[aspaceOf[t]].areas.prog, parent[t] # MainTid)

(* ---------------------------------------------------------------------- *)
(* The process state once the kernel has booted: main() is about to run    *)
(* the test cases `tests` and has spawned nothing yet                      *)
(* ---------------------------------------------------------------------- *)
Boot(tests) ==
    /\ nextTid = MainTid + 1
    /\ tstate = [t \in Tids |-> "Unused"]
    /\ pc = [t \in Tids |-> "none"]
    /\ proc_id = [t \in Tids |-> NoTask]
    /\ parent = [t \in Tids |-> NoTask]
    /\ children = [t \in Tids |-> <<>>]
    /\ childrenLocked = [t \in Tids |-> FALSE]
    /\ clear_child_tid = [t \in Tids |-> NullPtr]
    /\ uctx = [t \in Tids |-> NoUctx]
    /\ name = [t \in Tids |-> NoName]
    /\ aspaceOf = [t \in Tids |-> NoTask]
    /\ aspace = [h \in Tids |-> FreshAspace]
    /\ umem = [h \in Tids |-> FreshMem]
    /\ exit_code = [t \in Tids |-> 0]
    /\ wait = [t \in Tids |-> NoWait]
    /\ last = NoReturn
    /\ reaped = {}
    /\ todo = tests
    /\ mainPc = "spawn"
    /\ mainTask = NoTask
    /\ tlb_flushes = 0

(* ---------------------------------------------------------------------- *)
(* main(): spawn one user task per test case and join it                   *)
(* ---------------------------------------------------------------------- *)
\* TaskExt::new
\* a task extension that takes the handle its parent holds
TaskExt_new_Shared(t, id, ctx, h, par) ==
    /\ proc_id' = [proc_id EXCEPT ![t] = id]
    /\ uctx' = [uctx EXCEPT ![t] = ctx]
    /\ clear_child_tid' = [clear_child_tid EXCEPT ![t] = NullPtr]
    /\ aspaceOf' = [aspaceOf EXCEPT ![t] = IF par \in Tids THEN aspaceOf[par] ELSE h]
    /\ parent' = [parent EXCEPT ![t] = par]

TaskExt_new(t, id, ctx, h, par) ==
    /\ proc_id' = [proc_id EXCEPT ![t] = id]
    /\ uctx' = [uctx EXCEPT ![t] = ctx]
    /\ clear_child_tid' = [clear_child_tid EXCEPT ![t] = NullPtr]
    /\ aspaceOf' = [aspaceOf EXCEPT ![t] = h]
    /\ parent' = [parent EXCEPT ![t] = par]

\* main() loads the next test case and calls spawn_user_task
spawn_user_task ==
    /\ mainPc = "spawn"
    /\ todo # <<>>
    /\ nextTid <= MaxTid
    /\ LET t == nextTid
           prog == Head(todo)
       IN
        /\ todo' = Tail(todo)
        /\ nextTid' = nextTid + 1
        /\ TaskExt_new(t, t, [ip |-> <<"entry", prog>>, sp |-> 0, a0 |-> BootArg],
                       t, MainTid)
        /\ name' = [name EXCEPT ![t] = <<"userboot">>]
        /\ aspace' = [aspace EXCEPT
                        ![t] = [areas |-> [kind |-> "image", prog |-> prog],
                                locked |-> FALSE]]
        /\ umem' = [umem EXCEPT ![t] = FreshMem]
        /\ tstate' = [tstate EXCEPT ![t] = "Running"]
        /\ pc' = [pc EXCEPT ![t] = "user"]
        /\ mainPc' = "join"
        /\ mainTask' = t
    /\ UNCHANGED <<children, exit_code, last, tlb_flushes>>
    /\ UNCHANGED waitVars
    /\ UNCHANGED unitVars

\* user_task.join() returns in main(), the reference is dropped
main_join ==
    /\ mainPc = "join"
    /\ tstate[mainTask] = "Exited"
    /\ mainPc' = "spawn"
    /\ mainTask' = NoTask
    /\ UNCHANGED todo
    /\ UNCHANGED <<nextTid, tstate, pc, children, aspace, umem, exit_code, last, tlb_flushes>>
    /\ UNCHANGED taskVars
    /\ UNCHANGED waitVars
    /\ UNCHANGED unitVars

(* ---------------------------------------------------------------------- *)
(* clone                                                                   *)
(* ---------------------------------------------------------------------- *)
\* a push at the front of the list instead of its end
add_child_Front(t, child) == children' = [children EXCEPT ![t] = <<child>> \o @]

\* TaskExt::add_child
add_child(t, child) == children' = [children EXCEPT ![t] = Append(@, child)]

\* the error path taken after the new task was already handed to the scheduler
clone_err_Spawned(t) ==
    /\ Returns(t, "clone", -1)
    /\ tstate' = [tstate EXCEPT ![nextTid] = "Running"]
    /\ UNCHANGED <<pc, children, aspace, umem>>
    /\ UNCHANGED taskVars

\* `current_aspace.clone_or_err()?` fails: clone_task returns the error and
\* the TaskInner built at its start is dropped without having been spawned
clone_err(t) ==
    /\ Returns(t, "clone", -1)
    /\ UNCHANGED <<tstate, pc, children, aspace, umem>>
    /\ UNCHANGED taskVars

\* clone_task, with sys_clone's conversion of its result (Ok(id) -> id,
\* Err -> -1). user_stack = 0 is sys_clone's None. dupOk is the outcome of
\* AddrSpace::clone_or_err.
clone_task(t, user_stack, dupOk) ==
    /\ Calls(t, "clone")
    /\ nextTid <= MaxTid
    /\ nextTid' = nextTid + 1                       \* TaskInner::new takes an id
    /\ IF ~AspaceFree(t) THEN
            \* current_task.task_ext().aspace.lock() never returns
            /\ pc' = [pc EXCEPT ![t] = "aspace_stuck"]
            /\ UNCHANGED <<tstate, children, aspace, umem, last>>
            /\ UNCHANGED taskVars
       ELSE IF ~dupOk THEN
            clone_err(t)
       ELSE LET c == nextTid
                h == aspaceOf[t]
                ctx == [ip |-> <<"sepc+4", aspace[h].areas.prog>>,
                        sp |-> IF user_stack # 0 THEN user_stack ELSE uctx[t].sp,
                        a0 |-> 0]
            IN  /\ aspace' = [aspace EXCEPT
                                ![c] = [areas |-> aspace[h].areas, locked |-> FALSE]]
                /\ umem' = [umem EXCEPT ![c] = umem[h]]
                /\ TaskExt_new(c, c, ctx, c, t)
                /\ name' = [name EXCEPT ![c] = id_name(t)]
                /\ tstate' = [tstate EXCEPT ![c] = "Running"]   \* spawn_task
                /\ pc' = [pc EXCEPT ![c] = "user"]
                /\ add_child(t, c)
                /\ Returns(t, "clone", c)
    /\ UNCHANGED <<exit_code, tlb_flushes>>
    /\ UNCHANGED waitVars
    /\ UNCHANGED mainVars
    /\ UNCHANGED unitVars

sys_clone(t) ==
    /\ InUser(t)
    /\ \E user_stack \in Stacks(aspace[aspaceOf[t]].areas.prog), dupOk \in BOOLEAN :
            clone_task(t, user_stack, dupOk)

(* ---------------------------------------------------------------------- *)
(* exit, exit_group, set_tid_address                                       *)
(* ---------------------------------------------------------------------- *)
\* axtask::exit: the task becomes Exited with the exit code stored
axtask_exit(t, status) ==
    /\ tstate' = [tstate EXCEPT ![t] = "Exited"]
    /\ exit_code' = [exit_code EXCEPT ![t] = status]
    /\ pc' = [pc EXCEPT ![t] = "exited"]

sys_exit(t, status) ==
    /\ Calls(t, "exit")
    /\ LET ctid == clear_child_tid[t] IN
        umem' = IF ctid # NullPtr
                THEN [umem EXCEPT ![aspaceOf[t]][ctid] = 0]
                ELSE umem
    /\ axtask_exit(t, status)
    /\ UNCHANGED <<nextTid, children, aspace, last, tlb_flushes>>
    /\ UNCHANGED taskVars
    /\ UNCHANGED waitVars
    /\ UNCHANGED mainVars
    /\ UNCHANGED unitVars

sys_exit_group(t, status) ==
    /\ Calls(t, "exit_group")
    /\ axtask_exit(t, status)
    /\ UNCHANGED <<nextTid, children, aspace, umem, last, tlb_flushes>>
    /\ UNCHANGED taskVars
    /\ UNCHANGED waitVars
    /\ UNCHANGED mainVars
    /\ UNCHANGED unitVars

sys_set_tid_address(t, tid_ptd) ==
    /\ Calls(t, "set_tid_address")
    /\ clear_child_tid' = [clear_child_tid EXCEPT ![t] = tid_ptd]
    /\ Returns(t, "set_tid_address", t)
    /\ UNCHANGED <<nextTid, tstate, pc, children, aspace, umem, exit_code,
                   tlb_flushes, proc_id, parent, uctx, name, aspaceOf>>
    /\ UNCHANGED waitVars
    /\ UNCHANGED mainVars
    /\ UNCHANGED unitVars

(* ---------------------------------------------------------------------- *)
(* Destruction of a task record: the last strong reference is gone         *)
(* ---------------------------------------------------------------------- *)
Referenced(t) ==
    \/ mainTask = t
    \/ \E u \in Tids : t \in SeqToSet(children[u])

drop_task(t) ==
    /\ t \in Tids
    /\ tstate[t] = "Exited"
    /\ ~Referenced(t)
    /\ LET h == aspaceOf[t] IN
        /\ tstate' = [tstate EXCEPT ![t] = "Dropped"]
        /\ pc' = [pc EXCEPT ![t] = "none"]
        /\ children' = [children EXCEPT ![t] = <<>>]
        /\ proc_id' = [proc_id EXCEPT ![t] = NoTask]
        /\ parent' = [parent EXCEPT ![t] = NoTask]
        /\ clear_child_tid' = [clear_child_tid EXCEPT ![t] = NullPtr]
        /\ uctx' = [uctx EXCEPT ![t] = NoUctx]
        /\ name' = [name EXCEPT ![t] = NoName]
        /\ aspaceOf' = [aspaceOf EXCEPT ![t] = NoTask]
        /\ exit_code' = [exit_code EXCEPT ![t] = 0]
        /\ reaped' = reaped \ {t}
        /\ IF strong_count(h) = 1
           THEN /\ aspace' = [aspace EXCEPT ![h] = FreshAspace]
                /\ umem' = [umem EXCEPT ![h] = FreshMem]
           ELSE UNCHANGED <<aspace, umem>>
    /\ UNCHANGED <<nextTid, wait, childrenLocked, last, tlb_flushes>>
    /\ UNCHANGED mainVars
    /\ UNCHANGED unitVars

\* the task record t has not been destroyed; the kernel task that runs
\* main() lives as long as the kernel
RecordExists(t) ==
    \/ t = MainTid
    \/ t \in Tids /\ tstate[t] \in {"Running", "Exited"}

\* a lookup that reads the id through the reference without upgrading it
parent_id_Stale(t) == parent[t]

\* TaskExt::parent_id: the id of the parent when the weak reference
\* upgrades, None (NoTask) otherwise
parent_id(t) ==
    IF parent[t] # NoTask /\ RecordExists(parent[t]) THEN parent[t] ELSE NoTask

(* ---------------------------------------------------------------------- *)
(* wait_pid                                                                *)
(* ---------------------------------------------------------------------- *)
\* options.contains(WaitFlags::WNOHANG)
HasWNOHANG(opt) == (opt \div WNOHANG) % 2 = 1

\* the child the scan of task t is looking at (enumerate() counts from 0)
ScanChild(t) == children[t][wait[t].idx + 1]

\* a test that takes every child for an exited one
state_Exited_Any(c) == TRUE

\* child.state() == axtask::TaskState::Exited
state_Exited(c) == tstate[c] = "Exited"

\* the index of the child found is not recorded
WaitFound_NoIndex(t, c) ==
    /\ wait' = [wait EXCEPT ![t].answer_status = "Exited",
                            ![t].status = IF wait[t].ptr # NullPtr
                                          THEN Shl8(exit_code[c]) ELSE @,
                            ![t].answer_id = proc_id[c]]
    /\ UNCHANGED umem

\* the exit code stored without the shift to the wait-status position
WaitFound_NoShift(t, c) ==
    /\ wait' = [wait EXCEPT ![t].answer_status = "Exited",
                            ![t].exit_task_id = wait[t].idx,
                            ![t].status = IF wait[t].ptr # NullPtr
                                          THEN exit_code[c] ELSE @,
                            ![t].answer_id = proc_id[c]]
    /\ UNCHANGED umem

\* the scan found child c Exited at index wait[t].idx
WaitFound(t, c) ==
    /\ wait' = [wait EXCEPT ![t].answer_status = "Exited",
                            ![t].exit_task_id = wait[t].idx,
                            ![t].status = IF wait[t].ptr # NullPtr
                                          THEN Shl8(exit_code[c]) ELSE @,
                            ![t].answer_id = proc_id[c]]
    /\ UNCHANGED umem

\* entry of wait_pid up to the first children.lock()
wait_pid(t, pid, exit_code_ptr, option) ==
    /\ Calls(t, "wait4")
    /\ wait' = [wait EXCEPT ![t] = [pid |-> pid, ptr |-> exit_code_ptr,
                                    opt |-> option, idx |-> 0,
                                    answer_status |-> "NotExist",
                                    answer_id |-> 0, exit_task_id |-> 0,
                                    status |-> NotWritten]]
    /\ childrenLocked' = [childrenLocked EXCEPT ![t] = TRUE]
    /\ pc' = [pc EXCEPT ![t] = "wait_scan"]
    /\ UNCHANGED <<nextTid, tstate, children, aspace, umem, exit_code, last, reaped, tlb_flushes>>
    /\ UNCHANGED taskVars
    /\ UNCHANGED mainVars
    /\ UNCHANGED unitVars

\* one iteration of `for (index, child) in children.iter().enumerate()`,
\* or the end of the loop body when the iterator is exhausted
wait_scan(t) ==
    /\ t \in Tids
    /\ pc[t] = "wait_scan"
    /\ LET w == wait[t] IN
       IF w.idx >= Len(children[t]) THEN
            \* drop(children), then yield or leave the loop
            /\ childrenLocked' = [childrenLocked EXCEPT ![t] = FALSE]
            /\ pc' = [pc EXCEPT ![t] =
                        IF ~HasWNOHANG(w.opt) /\ w.answer_status = "Running"
                        THEN "wait_yield" ELSE "wait_finish"]
            /\ UNCHANGED <<wait, umem>>
       ELSE IF w.pid <= 0 THEN
            IF state_Exited(ScanChild(t)) THEN
                \* break 'outer: the guard is dropped on the way out
                /\ WaitFound(t, ScanChild(t))
                /\ childrenLocked' = [childrenLocked EXCEPT ![t] = FALSE]
                /\ pc' = [pc EXCEPT ![t] = "wait_finish"]
            ELSE
                /\ wait' = [wait EXCEPT ![t].answer_status = "Running",
                                        ![t].idx = w.idx + 1]
                /\ UNCHANGED <<childrenLocked, pc, umem>>
       ELSE IF proc_id[ScanChild(t)] = w.pid THEN
            \* child.join() is entered with the children guard alive
            /\ pc' = [pc EXCEPT ![t] = "wait_join"]
            /\ UNCHANGED <<wait, childrenLocked, umem>>
       ELSE
            /\ wait' = [wait EXCEPT ![t].idx = w.idx + 1]
            /\ UNCHANGED <<childrenLocked, pc, umem>>
    /\ UNCHANGED <<nextTid, tstate, children, aspace, exit_code, last,
                   reaped, tlb_flushes>>
    /\ UNCHANGED taskVars
    /\ UNCHANGED mainVars
    /\ UNCHANGED unitVars

\* TaskInner::join: blocks until the task has exited, returns its exit code
join_returns(c) == tstate[c] = "Exited"

\* child.join() returns Some(exit_code); break 'outer
wait_join(t) ==
    /\ t \in Tids
    /\ pc[t] = "wait_join"
    /\ join_returns(ScanChild(t))
    /\ WaitFound(t, ScanChild(t))
    /\ childrenLocked' = [childrenLocked EXCEPT ![t] = FALSE]
    /\ pc' = [pc EXCEPT ![t] = "wait_finish"]
    /\ UNCHANGED <<nextTid, tstate, children, aspace, exit_code, last,
                   reaped, tlb_flushes>>
    /\ UNCHANGED taskVars
    /\ UNCHANGED mainVars
    /\ UNCHANGED unitVars

\* yield_now() returns: the next iteration of 'outer takes the lock again
wait_resume(t) ==
    /\ t \in Tids
    /\ pc[t] = "wait_yield"
    /\ wait' = [wait EXCEPT ![t].answer_status = "NotExist", ![t].idx = 0]
    /\ childrenLocked' = [childrenLocked EXCEPT ![t] = TRUE]
    /\ pc' = [pc EXCEPT ![t] = "wait_scan"]
    /\ UNCHANGED <<nextTid, tstate, children, aspace, umem, exit_code, last, reaped, tlb_flushes>>
    /\ UNCHANGED taskVars
    /\ UNCHANGED mainVars
    /\ UNCHANGED unitVars

\* after the loop: remove the reaped child and compute the return value
wait_finish(t) ==
    /\ t \in Tids
    /\ pc[t] = "wait_finish"
    /\ LET w == wait[t] IN
       IF w.answer_status = "Exited" THEN
            /\ children' = [children EXCEPT ![t] = RemoveAt(@, w.exit_task_id + 1)]
            /\ last' = [task |-> t, sys |-> "wait4", ret |-> w.answer_id,
                         status |-> w.status]
            /\ reaped' = reaped \cup {w.answer_id}
       ELSE IF HasWNOHANG(w.opt) THEN
            /\ Returns(t, "wait4", 0)
            /\ UNCHANGED <<children, reaped>>
       ELSE
            /\ Returns(t, "wait4", -1)
            /\ UNCHANGED <<children, reaped>>
    /\ wait' = [wait EXCEPT ![t] = NoWait]
    /\ pc' = [pc EXCEPT ![t] = "user"]
    /\ UNCHANGED <<nextTid, tstate, childrenLocked, aspace, umem, exit_code,
                   tlb_flushes>>
    /\ UNCHANGED taskVars
    /\ UNCHANGED mainVars
    /\ UNCHANGED unitVars

\* pid arguments of wait4 by task t: any child, each of its children, and
\* an id that is none of its children (its own)
WaitPids(t) == {-1, t} \cup {children[t][i] : i \in 1..Len(children[t])}
sys_wait4(t) ==
    \E pid \in WaitPids(t), exit_code_ptr \in UserPtrs, option \in WaitOptions :
        wait_pid(t, pid, exit_code_ptr, option)

(* ---------------------------------------------------------------------- *)
(* exec                                                                    *)
(* ---------------------------------------------------------------------- *)
\* the reference-count test left out
aspace_shared_Never(h) == FALSE

\* Arc::strong_count(&aspace) != 1
aspace_shared(h) == strong_count(h) # 1

\* set_name moved ahead of the load, so that a failed load renames the task
exec_load_err_Named(t, program_name) ==
    LET h == aspaceOf[t] IN
    /\ \E a \in {[kind |-> "none", prog |-> aspace[h].areas.prog],
                 [kind |-> "partial", prog |-> program_name]} :
            aspace' = [aspace EXCEPT ![h].areas = a]
    /\ Returns(t, "execve", -1)
    /\ name' = [name EXCEPT ![t] = <<program_name>>]
    /\ UNCHANGED <<umem, uctx>>

\* map_elf_sections failed after the unmap: nothing, or part of the new
\* image, is mapped; exec returns before set_name and the new context
exec_load_err(t, program_name) ==
    LET h == aspaceOf[t] IN
    /\ \E a \in {[kind |-> "none", prog |-> aspace[h].areas.prog],
                 [kind |-> "partial", prog |-> program_name]} :
            aspace' = [aspace EXCEPT ![h].areas = a]
    /\ Returns(t, "execve", -1)
    /\ UNCHANGED <<umem, name, uctx>>

\* exec, with sys_execve's conversion of Err to -1. unmapOk and loadOk are
\* the outcomes of unmap_user_areas and map_elf_sections.
exec(t, program_name, unmapOk, loadOk) ==
    /\ Calls(t, "execve")
    /\ LET h == aspaceOf[t]
           old == aspace[h].areas
       IN
       IF ~AspaceFree(t) THEN
            \* task_ext().aspace.lock() never returns
            /\ pc' = [pc EXCEPT ![t] = "aspace_stuck"]
            /\ UNCHANGED <<aspace, umem, name, uctx, last, tlb_flushes>>
       ELSE IF aspace_shared(h) THEN
            /\ Returns(t, "execve", -1)
            /\ UNCHANGED <<pc, aspace, umem, name, uctx, tlb_flushes>>
       ELSE IF ~unmapOk THEN
            \* unmap_user_areas()? : some areas may already be gone
            /\ \E a \in {old, [kind |-> "partial", prog |-> old.prog]} :
                    aspace' = [aspace EXCEPT ![h].areas = a]
            /\ Returns(t, "execve", -1)
            /\ UNCHANGED <<pc, umem, name, uctx, tlb_flushes>>
       ELSE
            /\ tlb_flushes < MaxFlush
            /\ tlb_flushes' = tlb_flushes + 1
            /\ IF ~loadOk THEN
                    exec_load_err(t, program_name)
               ELSE
                    \* enter_uspace never returns: the aspace guard is never dropped
                    /\ aspace' = [aspace EXCEPT
                                    ![h] = [areas |-> [kind |-> "image",
                                                       prog |-> program_name],
                                            locked |-> TRUE]]
                    /\ umem' = [umem EXCEPT ![h] = FreshMem]
                    /\ name' = [name EXCEPT ![t] = <<program_name>>]
                    /\ uctx' = [uctx EXCEPT ![t] = [ip |-> <<"entry", program_name>>,
                                                    sp |-> 0, a0 |-> 0]]
                    /\ Returns(t, "execve", 0)
            /\ UNCHANGED pc
    /\ UNCHANGED <<nextTid, tstate, children, exit_code, proc_id, parent,
                   clear_child_tid, aspaceOf>>
    /\ UNCHANGED waitVars
    /\ UNCHANGED mainVars
    /\ UNCHANGED unitVars

\* sys_execve: a path with more than one component is refused before exec
sys_execve(t) ==
    \/ /\ Calls(t, "execve")
       /\ Returns(t, "execve", -1)
       /\ UNCHANGED <<nextTid, tstate, pc, children, aspace, umem, exit_code,
                      tlb_flushes>>
       /\ UNCHANGED taskVars
       /\ UNCHANGED waitVars
       /\ UNCHANGED mainVars
       /\ UNCHANGED unitVars
    \/ \E program_name \in ExecTargets, unmapOk \in BOOLEAN, loadOk \in BOOLEAN :
            exec(t, program_name, unmapOk, loadOk)

(* ---------------------------------------------------------------------- *)
(* Heap manager                                                            *)
(* ---------------------------------------------------------------------- *)
\* memory_addr::align_up_4k works on 4 KiB pages
PageSize == 4096
\* crate::config::USER_HEAP_BOTTOM and USER_HEAP_SIZE
USER_HEAP_BOTTOM == 1073741824
USER_HEAP_SIZE == HeapPages * PageSize

\* rounding to the page below instead of the page above
align_up_4k_Down(x) == (x \div PageSize) * PageSize

align_up_4k(x) == ((x + PageSize - 1) \div PageSize) * PageSize

\* Option::None as a return value
None == 0 - 1

\* the arguments user code passes to set_heap_top: 0, addresses at, just
\* above and just below every page boundary of the window, and addresses
\* outside the window
HeapTops ==
    {0, 1, USER_HEAP_BOTTOM - 1}
    \cup {USER_HEAP_BOTTOM + p * PageSize + d : p \in 0..HeapPages, d \in {0, 1, PageSize - 1}}

\* the pages of the heap window, and those that overlap [start, start + size)
HeapPageIds == 0..HeapPages
PageAddr(p) == USER_HEAP_BOTTOM + p * PageSize
PagesIn(start, size) ==
    {p \in HeapPageIds : PageAddr(p) >= start /\ PageAddr(p) < start + size}

NoRequest == [op |-> "none", start |-> 0, size |-> 0, ok |-> TRUE]
NoHeapCall == [top |-> 0, ret |-> None, request |-> NoRequest]

\* HeapManager::empty
HeapManager_empty ==
    /\ heap_top = USER_HEAP_BOTTOM
    /\ actual_heap_top = USER_HEAP_BOTTOM
    /\ heap_map = [p \in HeapPageIds |-> 0]
    /\ heap_call = NoHeapCall
    /\ heap_hist = [clean |-> TRUE, growing |-> TRUE, accepted |-> 0]

\* AddrSpace::map_alloc(start, size, ..): on success every page of the range
\* gains a mapping, on failure the mappings are as before
map_alloc(start, size, ok) ==
    heap_map' = IF ok THEN [p \in HeapPageIds |->
                                IF p \in PagesIn(start, size)
                                THEN heap_map[p] + 1 ELSE heap_map[p]]
                ELSE heap_map

\* AddrSpace::unmap(start, size)
unmap(start, size, ok) ==
    heap_map' = IF ok THEN [p \in HeapPageIds |->
                                IF p \in PagesIn(start, size) THEN 0 ELSE heap_map[p]]
                ELSE heap_map

\* the query answered with the mapped top instead of the logical top
heap_query_Actual(top) ==
    /\ heap_call' = [top |-> top, ret |-> actual_heap_top, request |-> NoRequest]
    /\ UNCHANGED <<heap_top, actual_heap_top, heap_map>>

\* the `top == 0` branch of set_heap_top: Some(self.heap_top)
heap_query(top) ==
    /\ heap_call' = [top |-> top, ret |-> heap_top, request |-> NoRequest]
    /\ UNCHANGED <<heap_top, actual_heap_top, heap_map>>

\* the range check letting through one page more than the window has
alloc_out_of_range_Late(top) == top > USER_HEAP_BOTTOM + USER_HEAP_SIZE + PageSize

\* the range check at the head of alloc
alloc_out_of_range(top) == top > USER_HEAP_BOTTOM + USER_HEAP_SIZE

\* HeapManager::alloc; ok is the outcome of map_alloc
alloc(top, ok) ==
    IF alloc_out_of_range(top) THEN
        /\ heap_call' = [top |-> top, ret |-> None, request |-> NoRequest]
        /\ UNCHANGED <<heap_top, actual_heap_top, heap_map>>
    ELSE IF top <= actual_heap_top THEN
        /\ heap_top' = top
        /\ heap_call' = [top |-> top, ret |-> top, request |-> NoRequest]
        /\ UNCHANGED <<actual_heap_top, heap_map>>
    ELSE
        LET aligned_top == align_up_4k(top)
            request == [op |-> "map_alloc", start |-> actual_heap_top,
                        size |-> aligned_top - actual_heap_top, ok |-> ok]
        IN  /\ map_alloc(request.start, request.size, ok)
            /\ IF ok
               THEN /\ heap_top' = top
                    /\ actual_heap_top' = aligned_top
                    /\ heap_call' = [top |-> top, ret |-> top, request |-> request]
               ELSE /\ heap_call' = [top |-> top, ret |-> None, request |-> request]
                    /\ UNCHANGED <<heap_top, actual_heap_top>>

\* HeapManager::dealloc; ok is the outcome of unmap
dealloc(top, ok) ==
    IF top < USER_HEAP_BOTTOM THEN
        /\ heap_call' = [top |-> top, ret |-> None, request |-> NoRequest]
        /\ UNCHANGED <<heap_top, actual_heap_top, heap_map>>
    ELSE
        LET aligned_top == align_up_4k(top) IN
        /\ heap_top' = top
        /\ IF aligned_top < actual_heap_top
           THEN LET request == [op |-> "unmap", start |-> aligned_top,
                                size |-> actual_heap_top - aligned_top, ok |-> ok]
                IN  /\ unmap(request.start, request.size, ok)
                    /\ actual_heap_top' = IF ok THEN aligned_top ELSE actual_heap_top
                    /\ heap_call' = [top |-> top,
                                     ret |-> IF ok THEN top ELSE None,
                                     request |-> request]
           ELSE /\ heap_call' = [top |-> top, ret |-> top, request |-> NoRequest]
                /\ UNCHANGED <<actual_heap_top, heap_map>>

\* the call is one of those the monotone-growth property speaks of: its
\* argument is in the window and the address-space operation succeeded
InWindow(top) == top >= USER_HEAP_BOTTOM /\ top <= USER_HEAP_BOTTOM + USER_HEAP_SIZE

\* HeapManager::set_heap_top, with the record of what the calls have been
set_heap_top(top, ok) ==
    /\ IF top = 0 THEN heap_query(top)
       ELSE IF top > heap_top THEN alloc(top, ok)
       ELSE dealloc(top, ok)
    /\ heap_hist' =
        IF top = 0 THEN heap_hist
        ELSE LET fine == InWindow(top) /\ heap_call'.request.ok IN
             [clean    |-> heap_hist.clean /\ fine,
              growing  |-> heap_hist.growing /\ fine /\ top >= heap_hist.accepted,
              accepted |-> IF heap_call'.ret # None THEN top ELSE heap_hist.accepted]
    /\ UNCHANGED procVars
    /\ UNCHANGED timeVars
    /\ UNCHANGED trapVars
    /\ UNCHANGED libVars

\* clone_task, as the heap of the new task sees it: clone_or_err copies
\* every mapping of the caller's address space, and TaskExt::new gives the
\* new task HeapManager::default()
clone_task_heap(dupOk) ==
    /\ dupOk
    /\ heap_top' = USER_HEAP_BOTTOM
    /\ actual_heap_top' = USER_HEAP_BOTTOM
    /\ heap_call' = NoHeapCall
    /\ UNCHANGED <<heap_map, heap_hist>>
    /\ UNCHANGED procVars
    /\ UNCHANGED timeVars
    /\ UNCHANGED trapVars
    /\ UNCHANGED libVars

\* exec, as the heap of the task sees it: unmap_user_areas removes every
\* user mapping of the address space, map_elf_sections maps the image and
\* the stack, and TaskExt.heap is not touched
exec_heap(unmapOk, loadOk) ==
    /\ unmapOk /\ loadOk
    /\ heap_map' = [p \in HeapPageIds |-> 0]
    /\ heap_call' = NoHeapCall
    /\ UNCHANGED <<heap_top, actual_heap_top, heap_hist>>
    /\ UNCHANGED procVars
    /\ UNCHANGED timeVars
    /\ UNCHANGED trapVars
    /\ UNCHANGED libVars

(* ---------------------------------------------------------------------- *)
(* Time accountant                                                         *)
(* ---------------------------------------------------------------------- *)
\* The counters are u64. An integer n stands for the u64 value n mod 2^64, so
\* a negative n is the value a wrapped subtraction leaves, 2^64 + n.
Ticks == 0..MaxTick

\* the kernel-entry timestamp left at zero instead of the creation tick
TimeStat_new_Zero(now) ==
    /\ ticks = now
    /\ user_time = 0
    /\ kernel_time = 0
    /\ last_user_time = 0
    /\ last_kernel_time = 0
    /\ time_log = [start |-> now, last |-> "new", calls |-> 0,
                   alternating |-> TRUE, monotone |-> TRUE, panicked |-> FALSE]

\* TimeStat::new at tick now
TimeStat_new(now) ==
    /\ ticks = now
    /\ user_time = 0
    /\ kernel_time = 0
    /\ last_user_time = 0
    /\ last_kernel_time = now
    /\ time_log = [start |-> now, last |-> "new", calls |-> 0,
                   alternating |-> TRUE, monotone |-> TRUE, panicked |-> FALSE]

\* `counter += current_time - last`: a - b below zero aborts the kernel in a
\* build with overflow checks and wraps in one without
AddDelta(counter, current_time, lastCrossing) ==
    IF current_time < lastCrossing /\ overflow_checks
    THEN counter
    ELSE counter + (current_time - lastCrossing)

Underflows(current_time, lastCrossing) == current_time < lastCrossing

Logged(call, now, under) ==
    time_log' = [time_log EXCEPT
        !.last = call,
        !.calls = @ + 1,
        !.alternating = @ /\ (IF call = "enter_uspace"
                               THEN time_log.last \in {"new", "enter_kspace"}
                               ELSE time_log.last = "enter_uspace"),
        !.monotone = @ /\ now >= ticks,
        !.panicked = under /\ overflow_checks]

\* TimeStat::enter_uspace; now is what current_ticks() returns
enter_uspace(now) ==
    /\ ~time_log.panicked
    /\ time_log.calls < MaxCalls
    /\ ticks' = now
    /\ last_user_time' = now
    /\ kernel_time' = AddDelta(kernel_time, now, last_kernel_time)
    /\ Logged("enter_uspace", now, Underflows(now, last_kernel_time))
    /\ UNCHANGED <<user_time, last_kernel_time, overflow_checks>>

\* TimeStat::enter_kspace
enter_kspace(now) ==
    /\ ~time_log.panicked
    /\ time_log.calls < MaxCalls
    /\ ticks' = now
    /\ last_kernel_time' = now
    /\ user_time' = AddDelta(user_time, now, last_user_time)
    /\ Logged("enter_kspace", now, Underflows(now, last_user_time))
    /\ UNCHANGED <<kernel_time, last_user_time, overflow_checks>>

\* TimeStat::info
info == <<user_time, kernel_time>>

(* ---------------------------------------------------------------------- *)
(* Trap registry                                                           *)
(* ---------------------------------------------------------------------- *)
\* the slices that handle_trap! dispatches, and all slices of the registry
TrapKinds == {"IRQ", "PAGE_FAULT"}
Slices == TrapKinds \cup {"SYSCALL", "BEFORE_ALL_TRAPS", "AFTER_ALL_TRAPS"}

\* a slice with n registered functions; <<slice, i>> names the i-th of them
Handlers(slice, n) == [i \in 1..n |-> <<slice, i>>]

\* the arguments of a trap: IRQ (scause bits), PAGE_FAULT (vaddr, access
\* flags, is_user), SYSCALL (trap frame, syscall number)
TrapArgs(kind) ==
    CASE kind = "IRQ"        -> {<<5>>, <<9>>}
      [] kind = "PAGE_FAULT" -> {<<4096, 1, 1>>, <<8192, 2, 0>>}
      [] kind = "SYSCALL"    -> {<<1, 64>>, <<1, 93>>}
      [] OTHER               -> {<<>>}

\* what a registered function returns for its arguments, and the `false` of
\* a dispatch that found no handler
Result(handler, args) == <<"result", handler, args>>
Unhandled == <<"false">>
NoResult == <<"none">>
\* a dispatch that panicked returns nothing
Panicked == <<"panic">>

NoTrap == [pc |-> "idle", kind |-> "none", args |-> <<>>, task_ext |-> FALSE,
           calls |-> <<>>, ret |-> NoResult]

Called(slice, i, args) == [slice |-> slice, index |-> i, args |-> args]

\* the registry as this program links it: one handler per slice
LinkedRegistry == [sl \in Slices |-> Handlers(sl, 1)]

\* an invocation of handle_trap!(kind, args) by the trap entry code; the
\* current task has a task extension or is a kernel thread without one
trap_enter(kind, args, ext) ==
    /\ trap.pc = "idle"
    /\ ~time_log.panicked
    /\ ext => time_log.calls + 2 <= MaxCalls
    /\ trap' = [pc |-> "pre", kind |-> kind, args |-> args, task_ext |-> ext,
                calls |-> <<>>, ret |-> NoResult]
    /\ UNCHANGED <<registry, timeVars>>

\* before_all_traps of task/time.rs
before_all_traps(now) ==
    IF trap.task_ext THEN enter_uspace(now) ELSE UNCHANGED timeVars

\* after_all_traps of task/time.rs
after_all_traps(now) ==
    IF trap.task_ext THEN enter_kspace(now) ELSE UNCHANGED timeVars

\* handle_trap!: `if let Some(func) = BEFORE_ALL_TRAPS.iter().next() { func() }`
run_pre_hook(now) ==
    /\ trap.pc = "pre"
    /\ now >= ticks
    /\ IF registry["BEFORE_ALL_TRAPS"] # <<>>
       THEN /\ before_all_traps(now)
            /\ trap' = [trap EXCEPT !.pc = "handler",
                            !.calls = Append(@, Called("BEFORE_ALL_TRAPS", 1, <<>>))]
       ELSE /\ trap' = [trap EXCEPT !.pc = "handler"]
            /\ UNCHANGED timeVars
    /\ UNCHANGED registry

\* the last registered function taken instead of the first
first_handler_Last(handlers) == Len(handlers)

\* the index of the function a dispatch invokes: iter.next()
first_handler(handlers) == 1

\* an early return from the empty-slice branch, past the post-trap hook
no_handler_Return ==
    trap' = [trap EXCEPT !.pc = "idle", !.ret = Unhandled]

\* handle_trap!: the branch taken when the slice is empty
no_handler ==
    trap' = [trap EXCEPT !.pc = "post", !.ret = Unhandled]

\* handle_trap!: the dispatch proper
run_handler ==
    /\ trap.pc = "handler"
    /\ LET handlers == registry[trap.kind] IN
       IF handlers # <<>>
       THEN LET i == first_handler(handlers) IN
            trap' = [trap EXCEPT !.pc = "post",
                        !.calls = Append(@, Called(trap.kind, i, trap.args)),
                        !.ret = Result(handlers[i], trap.args)]
       ELSE no_handler
    /\ UNCHANGED <<registry, timeVars>>

\* handle_trap!: `if let Some(func) = AFTER_ALL_TRAPS.iter().next() { func() }`
run_post_hook(now) ==
    /\ trap.pc = "post"
    /\ now >= ticks
    /\ IF registry["AFTER_ALL_TRAPS"] # <<>>
       THEN /\ after_all_traps(now)
            /\ trap' = [trap EXCEPT !.pc = "idle",
                            !.calls = Append(@, Called("AFTER_ALL_TRAPS", 1, <<>>))]
       ELSE /\ trap' = [trap EXCEPT !.pc = "idle"]
            /\ UNCHANGED timeVars
    /\ UNCHANGED registry

\* handle_syscall: SYSCALL[0](tf, syscall_num); indexing an empty slice at 0
\* is an out-of-bounds panic
handle_syscall(args) ==
    /\ trap.pc = "idle"
    /\ ~time_log.panicked
    /\ IF registry["SYSCALL"] # <<>>
       THEN trap' = [pc |-> "idle", kind |-> "SYSCALL", args |-> args,
                     task_ext |-> TRUE,
                     calls |-> <<Called("SYSCALL", 1, args)>>,
                     ret |-> Result(registry["SYSCALL"][1], args)]
       ELSE trap' = [pc |-> "panicked", kind |-> "SYSCALL", args |-> args,
                     task_ext |-> TRUE, calls |-> <<>>, ret |-> Panicked]
    /\ UNCHANGED <<registry, timeVars>>

(* ---------------------------------------------------------------------- *)
(* sys_getdents64                                                          *)
(* ---------------------------------------------------------------------- *)
\* DirEnt::FIXED_SIZE, size_of::<DirEnt>() and align_of::<DirEnt>() of the
\* #[repr(C)] struct { u64, i64, u16, u8, [u8; 0] }
FIXED_SIZE == 19
DirEntSize == 24
DirEntAlign == 8

\* the bytes of user memory the model keeps: the buffer and what follows it
MemTop == MaxBufLen + DirEntSize
ZeroMem == [a \in 0..(MemTop - 1) |-> 0]

\* directory entries: file name (bytes) and axfs file type
DirEntries == {[name |-> <<97>>, ft |-> "file"],
               [name |-> <<98, 98>>, ft |-> "dir"],
               [name |-> <<99, 99, 99, 99>>, ft |-> "other"]}
DirListings == UNION {[1..n -> DirEntries] : n \in 0..MaxEntries}
BufLens == (FIXED_SIZE - 1)..MaxBufLen
\* the value the padding bytes of a DirEnt happen to hold
PadBytes == {0, 255}

\* impl From<axfs::api::FileType> for FileType
FileType_from(ft) ==
    CASE ft = "dir"  -> 4
      [] ft = "file" -> 8
      [] OTHER       -> 0
\* FileType::Reg
Reg == 8

Max2(a, b) == IF a >= b THEN a ELSE b

\* little-endian encoding of v in n bytes, and its inverse
RECURSIVE LE(_, _)
LE(v, n) == IF n = 0 THEN <<>> ELSE <<v % 256>> \o LE(v \div 256, n - 1)
RECURSIVE FromLE(_)
FromLE(bytes) ==
    IF bytes = <<>> THEN 0 ELSE Head(bytes) + 256 * FromLE(Tail(bytes))

ReadAt(mem, o, n) == [k \in 1..n |-> mem[o + k - 1]]
WriteAt(mem, o, bytes) ==
    [a \in DOMAIN mem |->
        IF a >= o /\ a < o + Len(bytes) THEN bytes[a - o + 1] ELSE mem[a]]

\* DirEnt::new
DirEnt_new(ino, off, reclen, file_type) ==
    [d_ino |-> ino, d_off |-> off, d_reclen |-> reclen % 65536,
     d_type |-> file_type]

\* the object representation of a DirEnt: the fields at offsets 0, 8, 16
\* and 18, then padding up to the size of the struct
DirEnt_bytes(d, pad) ==
    LE(d.d_ino, 8) \o LE(d.d_off, 8) \o LE(d.d_reclen, 2) \o <<d.d_type>>
        \o [k \in 1..(DirEntSize - FIXED_SIZE) |-> pad]

\* *(buf.add(o) as *const DirEnt)
DirEnt_read(mem, o) ==
    [d_ino |-> FromLE(ReadAt(mem, o, 8)),
     d_off |-> FromLE(ReadAt(mem, o + 8, 8)),
     d_reclen |-> FromLE(ReadAt(mem, o + 16, 2)),
     d_type |-> mem[o + 18]]

\* the return value of a call that has not returned
NoCount == 0 - 2
NoGetdents == [pc |-> "idle", entries |-> <<>>, len |-> 0, pad |-> 0,
               next |-> 1, offset |-> 0, total_size |-> 0,
               current_offset |-> 0, written |-> 0, ret |-> NoCount]

DirIdle ==
    /\ ub_checks = FALSE
    /\ dir_mem = ZeroMem
    /\ getdents = NoGetdents

\* what a caller may leave in the buffer: zeros, the record of one entry
\* as an earlier call wrote it ("a" or "cccc"), or a record whose d_off is
\* not the offset of its end
RecordAtStart(off, reclen) ==
    WriteAt(ZeroMem, 0, DirEnt_bytes(DirEnt_new(1, off, reclen, Reg), 0))
CallerBuffers ==
    {ZeroMem, RecordAtStart(21, 21), RecordAtStart(24, 24), RecordAtStart(0, 21)}

\* sys_getdents64: the scan of the records the buffer already holds; ok is
\* FALSE when the assert_eq! on d_off fails, or when the build checks the
\* alignment of the pointer it reads a DirEnt through and finds it wrong
RECURSIVE scan_records(_, _, _, _)
scan_records(mem, len, buf_offset, count) ==
    IF buf_offset + FIXED_SIZE <= len
    THEN LET dir_ent == DirEnt_read(mem, buf_offset) IN
         IF ub_checks /\ buf_offset % DirEntAlign # 0
         THEN [offset |-> buf_offset, count |-> count, ok |-> FALSE]
         ELSE IF dir_ent.d_reclen = 0
         THEN [offset |-> buf_offset, count |-> count, ok |-> TRUE]
         ELSE IF dir_ent.d_off # buf_offset + dir_ent.d_reclen
         THEN [offset |-> buf_offset, count |-> count, ok |-> FALSE]
         ELSE scan_records(mem, len, buf_offset + dir_ent.d_reclen, count + 1)
    ELSE [offset |-> buf_offset, count |-> count, ok |-> TRUE]

\* sys_getdents64 up to the loop over the entries; ok is FALSE when
\* alloc_for_lazy, Directory::from_fd or read_dir fails
sys_getdents64(entries, len, pad, ok) ==
    /\ getdents.pc = "idle"
    /\ LET call == [getdents EXCEPT !.entries = entries, !.len = len, !.pad = pad]
           scan == scan_records(dir_mem, len, 0, 0)
       IN IF len < FIXED_SIZE \/ ~ok
          THEN getdents' = [call EXCEPT !.pc = "done", !.ret = 0 - 1]
          ELSE IF ~scan.ok
          THEN getdents' = [call EXCEPT !.pc = "panicked"]
          ELSE getdents' = [call EXCEPT !.pc = "entries",
                                !.next = scan.count + 1,
                                !.offset = 0,
                                !.total_size = scan.offset,
                                !.current_offset = scan.offset]
    /\ UNCHANGED <<dir_mem, ub_checks>>

\* DirBuffer::can_fit_entry (remaining_space saturates at 0)
can_fit_entry(g, entry_size) ==
    Max2(g.len - g.offset, 0) >= entry_size

\* DirBuffer::write_entry: entry_ptr.write(dirent) stores the whole struct,
\* write_name copies the name to the offset of d_name; a misaligned
\* entry_ptr is caught when the build checks it
write_entry(mem, g, dirent, file_name) ==
    IF ~can_fit_entry(g, dirent.d_reclen)
    THEN [res |-> "Err", mem |-> mem, offset |-> g.offset, written |-> g.written]
    ELSE IF ub_checks /\ g.offset % DirEntAlign # 0
    THEN [res |-> "Panic", mem |-> mem, offset |-> g.offset, written |-> g.written]
    ELSE [res |-> "Ok",
          mem |-> WriteAt(WriteAt(mem, g.offset, DirEnt_bytes(dirent, g.pad)),
                          g.offset + FIXED_SIZE, file_name),
          offset |-> g.offset + dirent.d_reclen,
          written |-> Max2(g.written,
                           g.offset + Max2(DirEntSize, FIXED_SIZE + Len(file_name)))]

\* one iteration of `for entry in entries.flatten().skip(count)`
getdents_entry ==
    /\ getdents.pc = "entries"
    /\ getdents.next <= Len(getdents.entries)
    /\ LET entry == getdents.entries[getdents.next]
           name_bytes == Append(entry.name, 0)
           entry_size == FIXED_SIZE + Len(name_bytes)
           current_offset == getdents.current_offset + entry_size
           dirent == DirEnt_new(1, current_offset, entry_size,
                                FileType_from(entry.ft))
           w == write_entry(dir_mem, getdents, dirent, name_bytes)
           g == [getdents EXCEPT !.current_offset = current_offset,
                                 !.offset = w.offset, !.written = w.written]
       IN /\ dir_mem' = w.mem
          /\ getdents' =
                CASE w.res = "Ok" ->
                        [g EXCEPT !.next = @ + 1, !.total_size = @ + entry_size]
                  [] w.res = "Err" -> [g EXCEPT !.pc = "terminal"]
                  [] OTHER -> [g EXCEPT !.pc = "panicked"]
    /\ UNCHANGED ub_checks

\* the terminal record and the return
getdents_return ==
    /\ \/ getdents.pc = "terminal"
       \/ getdents.pc = "entries" /\ getdents.next > Len(getdents.entries)
    /\ IF getdents.total_size > 0 /\ can_fit_entry(getdents, FIXED_SIZE)
       THEN LET terminal == DirEnt_new(1, getdents.current_offset, 0, Reg)
                w == write_entry(dir_mem, getdents, terminal, <<>>)
                g == [getdents EXCEPT !.offset = w.offset, !.written = w.written]
            IN /\ dir_mem' = w.mem
               /\ getdents' =
                    IF w.res = "Panic"
                    THEN [g EXCEPT !.pc = "panicked"]
                    ELSE [g EXCEPT !.pc = "done", !.ret = getdents.total_size]
       ELSE /\ getdents' = [getdents EXCEPT !.pc = "done",
                                            !.ret = getdents.total_size]
            /\ UNCHANGED dir_mem
    /\ UNCHANGED ub_checks

(* ---------------------------------------------------------------------- *)
(* ELF parser                                                              *)
(* ---------------------------------------------------------------------- *)
PAGE_SIZE_4K == 4096

\* xmas_elf::header::Type and xmas_elf::program::Type, as far as the parser
\* tells them apart
ElfTypes == {"Executable", "SharedObject", "Relocatable"}
PhTypes == {"Load", "Dynamic"}
PhFlags == {"R", "W", "X"}

Phdr(type, vaddr, mem_size, offset, file_size, flags) ==
    [type |-> type, virtual_addr |-> vaddr, mem_size |-> mem_size,
     offset |-> offset, file_size |-> file_size, flags |-> flags]

\* a section: whether find_section_by_name finds it, and its entries
NoSection == [present |-> FALSE, entries |-> <<>>]
Section(entries) == [present |-> TRUE, entries |-> entries]
\* an ELF file: e_ident magic is right, e_type, the program headers, the
\* length of the file, .rela.dyn, .rela.plt and .dynsym
ElfFile(magic, type, phs, len, rela_dyn, rela_plt, dynsym) ==
    [magic |-> magic, type |-> type, phs |-> phs, input_len |-> len,
     rela_dyn |-> rela_dyn, rela_plt |-> rela_plt, dynsym |-> dynsym]

\* files that differ in type, magic and the kinds and addresses of their
\* program headers
PlainPhdrs ==
    {Phdr(t, va, PAGE_SIZE_4K, va, PAGE_SIZE_4K, {"R"}) :
        t \in PhTypes, va \in {0, PAGE_SIZE_4K}}
HeaderFiles ==
    {ElfFile(m, t, phs, 3 * PAGE_SIZE_4K, NoSection, NoSection, NoSection) :
        m \in BOOLEAN, t \in ElfTypes,
        phs \in UNION {[1..n -> PlainPhdrs] : n \in 0..MaxPhdrs}}

\* files with one LOAD header of any placement, size and permission
LoadPhdrs ==
    {Phdr("Load", va, ms, off, fs, fl) :
        va \in {0, PAGE_SIZE_4K, PAGE_SIZE_4K + 8, 2 * PAGE_SIZE_4K - 1},
        ms \in {1, PAGE_SIZE_4K - 8, PAGE_SIZE_4K + 1},
        off \in {0, 8, PAGE_SIZE_4K - 1},
        fs \in {0, 1, PAGE_SIZE_4K - 8},
        fl \in SUBSET PhFlags}
LoadFiles ==
    {ElfFile(TRUE, t, <<ph>>, len, NoSection, NoSection, NoSection) :
        t \in {"Executable", "SharedObject"}, ph \in LoadPhdrs,
        len \in {PAGE_SIZE_4K, 3 * PAGE_SIZE_4K}}

BaseHints == {0, PAGE_SIZE_4K, 1024 * PAGE_SIZE_4K}

Ok(v) == [ok |-> TRUE, value |-> v]
Err(msg) == [ok |-> FALSE, value |-> msg]

\* a search that takes the last LOAD header
first_load_Last(phs) ==
    IF \E i \in 1..Len(phs) : phs[i].type = "Load"
    THEN CHOOSE i \in 1..Len(phs) :
            /\ phs[i].type = "Load"
            /\ \A j \in (i + 1)..Len(phs) : phs[j].type # "Load"
    ELSE 0

\* program_iter().find(|ph| ph.get_type() == Ok(Type::Load)): its index, 0
\* when there is none
first_load(phs) ==
    IF \E i \in 1..Len(phs) : phs[i].type = "Load"
    THEN CHOOSE i \in 1..Len(phs) :
            /\ phs[i].type = "Load"
            /\ \A j \in 1..(i - 1) : phs[j].type # "Load"
    ELSE 0

\* get_elf_base_addr
get_elf_base_addr(file, given_base) ==
    IF file.type = "Executable"
    THEN LET i == first_load(file.phs) IN
         IF i # 0
         THEN IF file.phs[i].virtual_addr = 0
              THEN Err(<<"some segements may be loaded to vaddr 0">>)
              ELSE Ok(0)
         ELSE Err(<<"no LOAD segment found">>)
    ELSE Ok(given_base)

\* the body of the for_each closure of get_elf_segments for one LOAD header:
\* the ELFSegment pushed, or a panic (assert_eq! on the page offsets, slice
\* index past the end of the input)
PanicSegment == [panic |-> TRUE, vaddr |-> 0, size |-> 0, flags |-> {},
                 data |-> [from |-> 0, to |-> 0]]
elf_segment(file, ph, real_base_addr) ==
    LET start_va == ph.virtual_addr + real_base_addr
        end_va == ph.virtual_addr + ph.mem_size + real_base_addr
        start_offset == ph.offset
        end_offset == ph.offset + ph.file_size
        front_pad == start_va % PAGE_SIZE_4K
    IN IF start_va % PAGE_SIZE_4K # start_offset % PAGE_SIZE_4K
       THEN PanicSegment
       ELSE IF end_offset > file.input_len
       THEN PanicSegment
       ELSE [panic |-> FALSE,
             vaddr |-> start_va - front_pad,
             size |-> end_va - (start_va - front_pad),
             flags |-> {"USER"}
                        \cup (IF "R" \in ph.flags THEN {"READ"} ELSE {})
                        \cup (IF "W" \in ph.flags THEN {"WRITE"} ELSE {})
                        \cup (IF "X" \in ph.flags THEN {"EXECUTE"} ELSE {}),
             data |-> [from |-> start_offset - front_pad, to |-> end_offset]]

NoSegments == [panic |-> FALSE, segments |-> <<>>]
\* get_elf_segments
get_elf_segments(file, elf_base_addr) ==
    LET base == get_elf_base_addr(file, elf_base_addr)
        loads == SelectSeq(file.phs, LAMBDA ph : ph.type = "Load")
        segments == [k \in 1..Len(loads) |-> elf_segment(file, loads[k], base.value)]
    IN IF ~file.magic \/ ~base.ok
       THEN [NoSegments EXCEPT !.panic = TRUE]
       ELSE IF \E k \in 1..Len(loads) : segments[k].panic
       THEN [NoSegments EXCEPT !.panic = TRUE]
       ELSE [panic |-> FALSE, segments |-> segments]

\* relocation types of arch/x86_64.rs, and one it does not handle
\* (R_X86_64_COPY)
R_X86_64_64 == 1
R_X86_64_PC32 == 2
R_X86_64_GLOB_DAT == 6
R_X86_64_JUMP_SLOT == 7
R_X86_64_RELATIVE == 8
R_X86_64_IRELATIVE == 37
R_X86_64_COPY == 5
RelocTypes == {R_X86_64_64, R_X86_64_PC32, R_X86_64_GLOB_DAT, R_X86_64_JUMP_SLOT,
               R_X86_64_RELATIVE, R_X86_64_IRELATIVE, R_X86_64_COPY}

\* .dynsym: the null symbol (undefined, section index 0) and a defined one
DynSym == Section(<<[shndx |-> 0, value |-> 0], [shndx |-> 1, value |-> 8192]>>)

Rela(type, sym, offset, addend) ==
    [type |-> type, sym |-> sym, offset |-> offset, addend |-> addend]
RelaEntries == {Rela(t, sym, 16, 4) : t \in RelocTypes, sym \in {0, 1}}
PltEntries == {Rela(t, sym, 32, 0) :
                    t \in {R_X86_64_JUMP_SLOT, R_X86_64_RELATIVE}, sym \in {0, 1}}

\* files that differ in their relocation sections and dynamic symbol table
RelocFiles ==
    {ElfFile(m, tp[1], tp[2], 3 * PAGE_SIZE_4K, rd, rp, ds) :
        m \in BOOLEAN,
        tp \in {<<"SharedObject", <<>>>>,
                <<"Executable", <<Phdr("Load", 0, 1, 0, 1, {"R"})>>>>},
        rd \in {NoSection} \cup
               {Section(es) : es \in UNION {[1..n -> RelaEntries] : n \in 0..MaxRelocs}},
        rp \in {NoSection} \cup
               {Section(es) : es \in UNION {[1..n -> PltEntries] : n \in 0..1}},
        ds \in {NoSection, DynSym}}

\* size_of::<usize>()
WordSize == 8
RelocatePair(src, dst, count) ==
    [panic |-> FALSE, src |-> src, dst |-> dst, count |-> count]
PanicPair == [panic |-> TRUE, src |-> 0, dst |-> 0, count |-> 0]

\* get_relocate_pairs: the body of the loop over .rela.dyn
rela_dyn_pair(entry, dyn_sym_table, base_addr) ==
    LET dyn_sym == dyn_sym_table[entry.sym + 1]
        destination == base_addr + entry.offset
    IN CASE entry.type \in {R_X86_64_64, R_X86_64_GLOB_DAT, R_X86_64_JUMP_SLOT} ->
                IF dyn_sym.shndx = 0 THEN PanicPair
                ELSE RelocatePair(dyn_sym.value, destination, WordSize)
         [] entry.type = R_X86_64_PC32 ->
                IF dyn_sym.shndx = 0 THEN PanicPair
                ELSE RelocatePair(dyn_sym.value + entry.addend - entry.offset,
                                  destination, 4)
         [] entry.type = R_X86_64_RELATIVE ->
                RelocatePair(base_addr + entry.addend, destination, WordSize)
         [] entry.type = R_X86_64_IRELATIVE ->
                RelocatePair(0, destination, WordSize)
         [] OTHER -> PanicPair

\* get_relocate_pairs: the body of the loop over .rela.plt
rela_plt_pair(entry, dyn_sym_table, base_addr) ==
    LET dyn_sym == dyn_sym_table[entry.sym + 1]
        destination == base_addr + entry.offset
    IN IF entry.type \in {R_X86_64_GLOB_DAT, R_X86_64_JUMP_SLOT}
       THEN IF dyn_sym.shndx # 0
            THEN RelocatePair(dyn_sym.value, destination, WordSize)
            ELSE PanicPair
       ELSE PanicPair

NoPairs == [panic |-> FALSE, pairs |-> <<>>]
\* get_relocate_pairs: the entries of a relocation section are looked at
\* only if find_section_by_name(".dynsym") finds the symbol table
get_relocate_pairs(file, elf_base_addr) ==
    LET base == get_elf_base_addr(file, elf_base_addr)
        dyn == IF file.rela_dyn.present /\ file.dynsym.present
               THEN [k \in 1..Len(file.rela_dyn.entries) |->
                        rela_dyn_pair(file.rela_dyn.entries[k],
                                      file.dynsym.entries, base.value)]
               ELSE <<>>
        plt == IF file.rela_plt.present /\ file.dynsym.present
               THEN [k \in 1..Len(file.rela_plt.entries) |->
                        rela_plt_pair(file.rela_plt.entries[k],
                                      file.dynsym.entries, base.value)]
               ELSE <<>>
        pairs == dyn \o plt
    IN IF ~file.magic \/ ~base.ok
       THEN [NoPairs EXCEPT !.panic = TRUE]
       ELSE IF \E k \in 1..Len(pairs) : pairs[k].panic
       THEN [NoPairs EXCEPT !.panic = TRUE]
       ELSE [panic |-> FALSE, pairs |-> pairs]

NoRet == <<"none">>
NoElfCall == [op |-> "none", file |-> <<>>, base |-> 0, ret |-> NoRet]
ElfIdle == elf = NoElfCall

\* a caller computes the load base of a file
call_get_elf_base_addr(file, given_base) ==
    /\ elf.op = "none"
    /\ elf' = [op |-> "get_elf_base_addr", file |-> file, base |-> given_base,
               ret |-> get_elf_base_addr(file, given_base)]

\* a caller asks for the relocations of a file
call_get_relocate_pairs(file, elf_base_addr) ==
    /\ elf.op = "none"
    /\ elf' = [op |-> "get_relocate_pairs", file |-> file, base |-> elf_base_addr,
               ret |-> get_relocate_pairs(file, elf_base_addr)]

\* a caller asks for the segments of a file
call_get_elf_segments(file, elf_base_addr) ==
    /\ elf.op = "none"
    /\ elf' = [op |-> "get_elf_segments", file |-> file, base |-> elf_base_addr,
               ret |-> get_elf_segments(file, elf_base_addr)]

(* ---------------------------------------------------------------------- *)
(* LazyInit                                                                *)
(* ---------------------------------------------------------------------- *)
Threads == 1..MaxThreads
LazyOps == {"init_once", "call_once"}
ReadOps == {"is_inited", "get", "deref"}

\* MaybeUninit::uninit(), and the value thread t passes or its closure makes
Uninit == <<"uninit">>
ValueOf(t) == <<"value", t>>

NoCaller == [pc |-> "start", op |-> "none", saw_inited |-> FALSE,
             won |-> FALSE, closure_called |-> FALSE, ret |-> <<"none">>]

\* LazyInit::new
LazyInit_new ==
    /\ inited = FALSE
    /\ data = Uninit
    /\ callers = [t \in Threads |-> NoCaller]
    /\ writes = 0

\* a plain store of `new`, whatever the flag holds
compare_exchange_weak_Store(current, expected, new, spurious) ==
    [ok |-> TRUE, value |-> new]

\* AtomicBool::compare_exchange_weak(expected, new, ..): the flag becomes
\* `new` if it holds `expected`, and the exchange may fail although it does
compare_exchange_weak(current, expected, new, spurious) ==
    IF current = expected /\ ~spurious
    THEN [ok |-> TRUE, value |-> new]
    ELSE [ok |-> FALSE, value |-> current]

\* thread t calls init_once(data) or call_once(f)
lazy_call(t, op) ==
    /\ callers[t].pc = "start"
    /\ callers' = [callers EXCEPT ![t].pc = "cas", ![t].op = op]
    /\ UNCHANGED <<inited, data, writes>>

\* the match on compare_exchange_weak(false, true, Acquire, Relaxed):
\* Ok goes on to the store, Err panics (init_once) or returns None
\* (call_once)
lazy_exchange(t, spurious) ==
    /\ callers[t].pc = "cas"
    /\ LET cas == compare_exchange_weak(inited, FALSE, TRUE, spurious)
           me == [callers[t] EXCEPT !.saw_inited = inited]
       IN /\ inited' = cas.value
          /\ callers' = [callers EXCEPT ![t] =
                IF cas.ok THEN [me EXCEPT !.pc = "write", !.won = TRUE]
                ELSE IF me.op = "init_once"
                THEN [me EXCEPT !.pc = "panicked", !.ret = <<"Already initialized">>]
                ELSE [me EXCEPT !.pc = "done", !.ret = <<"None">>]]
    /\ UNCHANGED <<data, writes>>

\* the Ok arm: (*self.data.get()).as_mut_ptr().write(data) or .write(f()),
\* then force_get
lazy_write(t) ==
    /\ callers[t].pc = "write"
    /\ data' = ValueOf(t)
    /\ writes' = writes + 1
    /\ callers' = [callers EXCEPT ![t].pc = "done",
                                  ![t].closure_called = (callers[t].op = "call_once"),
                                  ![t].ret = <<"Some", ValueOf(t)>>]
    /\ UNCHANGED inited

\* thread t calls is_inited, get or deref: inited.load(Acquire), then
\* force_get when the flag is set. Reading data that was never written is
\* undefined; the value read is recorded as it is.
lazy_read(t, op) ==
    /\ callers[t].pc = "start"
    /\ callers' = [callers EXCEPT ![t] =
            [NoCaller EXCEPT
                !.op = op,
                !.saw_inited = inited,
                !.pc = IF op = "deref" /\ ~inited THEN "panicked" ELSE "done",
                !.ret = IF op = "is_inited"
                        THEN (IF inited THEN <<"true">> ELSE <<"false">>)
                        ELSE IF inited THEN <<"Some", data>>
                        ELSE IF op = "get" THEN <<"None">>
                        ELSE <<"Use uninitialized value">>]]
    /\ UNCHANGED <<inited, data, writes>>

(* ---------------------------------------------------------------------- *)
(* ctor_bare                                                               *)
(* ---------------------------------------------------------------------- *)
\* the functions test_ctor.rs marks with #[register_ctor]
CtorNames == {"set_init_num", "init_vector"}

\* register_ctor stores a pointer to the function in .init_array; the
\* linker decides which functions a binary holds and in which order
InitArrays ==
    {<<>>} \cup {<<f>> : f \in CtorNames}
           \cup {p \in CtorNames \X CtorNames : p[1] # p[2]}

Registered == {init_array[k] : k \in 1..Len(init_array)}

CtorLoaded(arr) ==
    /\ init_array = arr
    /\ INIT_NUM = 0
    /\ INIT_VEC = <<>>
    /\ ctor_pc = [pc |-> "startup", i |-> 1, manual |-> 0]
    /\ ctor_log = <<>>

CtorIdle == CtorLoaded(<<>>)

\* fn set_init_num
set_init_num ==
    /\ INIT_NUM' = INIT_NUM + 20
    /\ UNCHANGED INIT_VEC

\* fn init_vector
init_vector ==
    /\ INIT_VEC' = INIT_VEC \o <<1, 2, 3>>
    /\ UNCHANGED INIT_NUM

\* a call through the function pointer, or by name
invoke(f) ==
    /\ IF f = "set_init_num" THEN set_init_num ELSE init_vector
    /\ ctor_log' = Append(ctor_log, f)

\* a loop that skips every other pointer
step_by_Two(i) == i + 2

\* .step_by(size_of::<*const c_void>()): the next pointer of the section
step_by(i) == i + 1

\* call_ctors, one turn of its loop: the pointer at i is called, and past
\* __init_array_end the function returns. Startup runs the same loop
\* before main.
call_ctors_step ==
    /\ ctor_pc.pc \in {"startup", "call_ctors"}
    /\ IF ctor_pc.i <= Len(init_array)
       THEN /\ invoke(init_array[ctor_pc.i])
            /\ ctor_pc' = [ctor_pc EXCEPT !.i = step_by(ctor_pc.i)]
       ELSE /\ ctor_pc' = [ctor_pc EXCEPT !.pc = "main"]
            /\ UNCHANGED <<INIT_NUM, INIT_VEC, ctor_log>>
    /\ UNCHANGED init_array

\* the test body calls a constructor by name
main_invoke(f) ==
    /\ ctor_pc.pc = "main"
    /\ ctor_pc.manual < MaxManual
    /\ f \in Registered
    /\ invoke(f)
    /\ ctor_pc' = [ctor_pc EXCEPT !.manual = @ + 1]
    /\ UNCHANGED init_array

\* the test body calls ctor_bare::call_ctors()
main_call_ctors ==
    /\ ctor_pc.pc = "main"
    /\ ctor_pc.manual < MaxManual
    /\ ctor_pc' = [ctor_pc EXCEPT !.pc = "call_ctors", !.i = 1, !.manual = @ + 1]
    /\ UNCHANGED <<init_array, INIT_NUM, INIT_VEC, ctor_log>>

\* the library routines exercised on their own are at rest
LibsIdle == DirIdle /\ ElfIdle /\ LazyInit_new /\ CtorIdle

(* ---------------------------------------------------------------------- *)
(* Specification                                                           *)
(* ---------------------------------------------------------------------- *)
Next ==
    \/ spawn_user_task
    \/ main_join
    \/ \E t \in Tids : sys_clone(t)
    \/ \E t \in Tids, status \in ExitStatuses : sys_exit(t, status)
    \/ \E t \in Tids, status \in ExitStatuses : sys_exit_group(t, status)
    \/ \E t \in Tids, p \in UserPtrs : sys_set_tid_address(t, p)
    \/ \E t \in Tids : sys_wait4(t)
    \/ \E t \in Tids : wait_scan(t)
    \/ \E t \in Tids : wait_join(t)
    \/ \E t \in Tids : wait_resume(t)
    \/ \E t \in Tids : wait_finish(t)
    \/ \E t \in Tids : sys_execve(t)
    \/ \E t \in Tids : drop_task(t)

\* the components exercised on their own are at rest
UnitsIdle ==
    /\ HeapManager_empty
    /\ TimeStat_new(0)
    /\ overflow_checks = FALSE
    /\ registry = LinkedRegistry
    /\ trap = NoTrap
    /\ LibsIdle

Init == (\E tests \in TestLists : Boot(tests)) /\ UnitsIdle

Spec == Init /\ [][Next]_vars

\* the scheduler runs every task that is ready, so a task inside wait_pid
\* takes its next step; a task in user mode need not make any system call
Fairness ==
    \A t \in Tids :
        /\ WF_vars(wait_scan(t))
        /\ WF_vars(wait_join(t))
        /\ WF_vars(wait_resume(t))
        /\ WF_vars(wait_finish(t))

FairSpec == Spec /\ Fairness

\* Two tasks holding one address-space handle. clone_task gives every task
\* a handle of its own, so no run of Spec gets here; the state serves to
\* exercise the ownership check of exec.
InitSharedAspace ==
    LET a == MainTid + 1
        b == MainTid + 2
        img == [kind |-> "image", prog |-> "execve"]
    IN
    /\ nextTid = b + 1
    /\ tstate = [t \in Tids |-> IF t \in {a, b} THEN "Running" ELSE "Unused"]
    /\ pc = [t \in Tids |-> IF t \in {a, b} THEN "user" ELSE "none"]
    /\ proc_id = [t \in Tids |-> IF t \in {a, b} THEN t ELSE NoTask]
    /\ parent = [t \in Tids |-> IF t = a THEN MainTid ELSE IF t = b THEN a ELSE NoTask]
    /\ children = [t \in Tids |-> IF t = a THEN <<b>> ELSE <<>>]
    /\ childrenLocked = [t \in Tids |-> FALSE]
    /\ clear_child_tid = [t \in Tids |-> NullPtr]
    /\ uctx = [t \in Tids |->
                IF t = a THEN [ip |-> <<"entry", "execve">>, sp |-> 0, a0 |-> BootArg]
                ELSE IF t = b THEN [ip |-> <<"sepc+4", "execve">>, sp |-> 0, a0 |-> 0]
                ELSE NoUctx]
    /\ name = [t \in Tids |-> IF t = a THEN <<"userboot">>
                               ELSE IF t = b THEN <<"Task", a, <<"userboot">>>>
                               ELSE NoName]
    /\ aspaceOf = [t \in Tids |-> IF t \in {a, b} THEN a ELSE NoTask]
    /\ aspace = [h \in Tids |-> IF h = a THEN [areas |-> img, locked |-> FALSE]
                                 ELSE FreshAspace]
    /\ umem = [h \in Tids |-> FreshMem]
    /\ exit_code = [t \in Tids |-> 0]
    /\ wait = [t \in Tids |-> NoWait]
    /\ last = NoReturn
    /\ reaped = {}
    /\ todo = <<>>
    /\ mainPc = "join"
    /\ mainTask = a
    /\ tlb_flushes = 0
    /\ UnitsIdle

SharedSpec == (Init \/ InitSharedAspace) /\ [][Next]_vars

\* A task's heap manager driven by set_heap_top calls of its user program,
\* with either outcome of every address-space operation
HeapInit == Boot(<<>>) /\ UnitsIdle

HeapNext == \E top \in HeapTops, ok \in BOOLEAN : set_heap_top(top, ok)

HeapSpec == HeapInit /\ [][HeapNext]_vars

\* The heap of a task that grows and shrinks it, is cloned (the model goes
\* on with the new task) and replaces its program
TaskHeapInit == Boot(<<>>) /\ UnitsIdle

TaskHeapNext ==
    \/ /\ \A p \in HeapPageIds : heap_map[p] < MaxMappings
       /\ \E top \in HeapTops, ok \in BOOLEAN : set_heap_top(top, ok)
    \/ \E dupOk \in BOOLEAN : clone_task_heap(dupOk)
    \/ \E unmapOk \in BOOLEAN, loadOk \in BOOLEAN : exec_heap(unmapOk, loadOk)

TaskHeapSpec == TaskHeapInit /\ [][TaskHeapNext]_vars

\* One TimeStat, created at any tick, on which enter_uspace and enter_kspace
\* are called in any order with any tick readings, in either kind of build
TimeInit ==
    /\ Boot(<<>>)
    /\ HeapManager_empty
    /\ \E now \in Ticks : TimeStat_new(now)
    /\ overflow_checks \in BOOLEAN
    /\ registry = LinkedRegistry
    /\ trap = NoTrap
    /\ LibsIdle

TimeNext ==
    \/ \E now \in Ticks :
            enter_uspace(now) /\ UNCHANGED <<procVars, heapVars, trapVars, libVars>>
    \/ \E now \in Ticks :
            enter_kspace(now) /\ UNCHANGED <<procVars, heapVars, trapVars, libVars>>

TimeSpec == TimeInit /\ [][TimeNext]_vars

\* Traps and system calls of one task, dispatched through a registry with
\* any number of IRQ, page-fault and system-call handlers and one or more
\* hooks; the tick source does not go back
TrapInit ==
    /\ Boot(<<>>)
    /\ HeapManager_empty
    /\ \E now \in {0, 1} : TimeStat_new(now)
    /\ overflow_checks = FALSE
    /\ \E irqs \in 0..MaxHandlers, faults \in 0..MaxHandlers,
          syscalls \in 0..MaxHandlers, others \in 1..MaxHandlers :
        registry = [sl \in Slices |->
                        Handlers(sl, CASE sl = "IRQ" -> irqs
                                       [] sl = "PAGE_FAULT" -> faults
                                       [] sl = "SYSCALL" -> syscalls
                                       [] OTHER -> others)]
    /\ trap = NoTrap
    /\ LibsIdle

TrapNext ==
    \/ \E kind \in TrapKinds, ext \in BOOLEAN : \E args \in TrapArgs(kind) :
            trap_enter(kind, args, ext) /\ UNCHANGED <<procVars, heapVars, libVars>>
    \/ \E now \in Ticks : run_pre_hook(now) /\ UNCHANGED <<procVars, heapVars, libVars>>
    \/ run_handler /\ UNCHANGED <<procVars, heapVars, libVars>>
    \/ \E now \in Ticks : run_post_hook(now) /\ UNCHANGED <<procVars, heapVars, libVars>>
    \/ \E args \in TrapArgs("SYSCALL") :
            handle_syscall(args) /\ UNCHANGED <<procVars, heapVars, libVars>>

TrapSpec == TrapInit /\ [][TrapNext]_vars

\* One sys_getdents64 call on a zero-filled buffer, for any directory, buffer
\* length and build
DirInit ==
    /\ Boot(<<>>)
    /\ HeapManager_empty
    /\ TimeStat_new(0)
    /\ overflow_checks = FALSE
    /\ registry = LinkedRegistry
    /\ trap = NoTrap
    /\ ub_checks \in BOOLEAN
    /\ dir_mem = ZeroMem
    /\ getdents = NoGetdents
    /\ ElfIdle
    /\ LazyInit_new
    /\ CtorIdle

DirNext ==
    \/ /\ getdents.pc = "idle"
       /\ \E entries \in DirListings, len \in BufLens, pad \in PadBytes, ok \in BOOLEAN :
            /\ sys_getdents64(entries, len, pad, ok)
            /\ UNCHANGED <<procVars, heapVars, timeVars, trapVars, elfVars, lazyVars, ctorVars>>
    \/ getdents_entry /\ UNCHANGED <<procVars, heapVars, timeVars, trapVars, elfVars, lazyVars, ctorVars>>
    \/ getdents_return /\ UNCHANGED <<procVars, heapVars, timeVars, trapVars, elfVars, lazyVars, ctorVars>>

DirSpec == DirInit /\ [][DirNext]_vars

\* One sys_getdents64 call on a buffer the caller has left anything in
DirResumeInit ==
    /\ Boot(<<>>)
    /\ HeapManager_empty
    /\ TimeStat_new(0)
    /\ overflow_checks = FALSE
    /\ registry = LinkedRegistry
    /\ trap = NoTrap
    /\ ub_checks \in BOOLEAN
    /\ dir_mem \in CallerBuffers
    /\ getdents = NoGetdents
    /\ ElfIdle
    /\ LazyInit_new
    /\ CtorIdle

DirResumeSpec == DirResumeInit /\ [][DirNext]_vars

\* One call into the ELF parser, on any file and base address
ElfInit ==
    /\ Boot(<<>>)
    /\ UnitsIdle

ElfNext ==
    \/ /\ elf.op = "none"
       /\ \E file \in HeaderFiles \cup LoadFiles, given_base \in BaseHints :
            /\ call_get_elf_base_addr(file, given_base)
            /\ UNCHANGED <<procVars, heapVars, timeVars, trapVars, dirVars, lazyVars, ctorVars>>
    \/ /\ elf.op = "none"
       /\ \E file \in HeaderFiles \cup LoadFiles, elf_base_addr \in BaseHints :
            /\ call_get_elf_segments(file, elf_base_addr)
            /\ UNCHANGED <<procVars, heapVars, timeVars, trapVars, dirVars, lazyVars, ctorVars>>
    \/ /\ elf.op = "none"
       /\ \E file \in RelocFiles :
            /\ call_get_relocate_pairs(file, PAGE_SIZE_4K)
            /\ UNCHANGED <<procVars, heapVars, timeVars, trapVars, dirVars, lazyVars, ctorVars>>

ElfSpec == ElfInit /\ [][ElfNext]_vars

\* Threads that share one LazyInit and each call one of its methods
LazyInit ==
    /\ Boot(<<>>)
    /\ UnitsIdle

LazyNext ==
    \/ \E t \in Threads, op \in LazyOps :
            /\ lazy_call(t, op)
            /\ UNCHANGED <<procVars, heapVars, timeVars, trapVars, dirVars, elfVars, ctorVars>>
    \/ \E t \in Threads, spurious \in BOOLEAN :
            /\ lazy_exchange(t, spurious)
            /\ UNCHANGED <<procVars, heapVars, timeVars, trapVars, dirVars, elfVars, ctorVars>>
    \/ \E t \in Threads :
            /\ lazy_write(t)
            /\ UNCHANGED <<procVars, heapVars, timeVars, trapVars, dirVars, elfVars, ctorVars>>
    \/ \E t \in Threads, op \in ReadOps :
            /\ lazy_read(t, op)
            /\ UNCHANGED <<procVars, heapVars, timeVars, trapVars, dirVars, elfVars, ctorVars>>

LazySpec == LazyInit /\ [][LazyNext]_vars

\* A program with any set of registered constructors: startup, then a test
\* body that calls constructors and call_ctors by hand
CtorInit ==
    /\ Boot(<<>>)
    /\ HeapManager_empty
    /\ TimeStat_new(0)
    /\ overflow_checks = FALSE
    /\ registry = LinkedRegistry
    /\ trap = NoTrap
    /\ DirIdle
    /\ ElfIdle
    /\ LazyInit_new
    /\ \E arr \in InitArrays : CtorLoaded(arr)

CtorNext ==
    \/ call_ctors_step
            /\ UNCHANGED <<procVars, heapVars, timeVars, trapVars, dirVars, elfVars, lazyVars>>
    \/ \E f \in CtorNames :
            /\ main_invoke(f)
            /\ UNCHANGED <<procVars, heapVars, timeVars, trapVars, dirVars, elfVars, lazyVars>>
    \/ main_call_ctors
            /\ UNCHANGED <<procVars, heapVars, timeVars, trapVars, dirVars, elfVars, lazyVars>>

CtorSpec == CtorInit /\ [][CtorNext]_vars

(* ---------------------------------------------------------------------- *)
(* Properties                                                              *)
(* ---------------------------------------------------------------------- *)
\* the children lists that hold task c, and how often list t holds it
ListsOf(c) == {t \in Tids : c \in SeqToSet(children[t])}
Occurrences(t, c) == Cardinality({i \in 1..Len(children[t]) : children[t][i] = c})
\* task c was made by clone_task and its record exists
Cloned(c) == tstate[c] \in {"Running", "Exited"} /\ parent[c] \in Tids
\* task t leaves wait_pid in this step
WaitReturns(t) == pc[t] = "wait_finish" /\ pc'[t] = "user"
\* no child of t matches the pid its wait_pid was given
NoMatch(t) ==
    IF wait[t].pid <= 0 THEN children[t] = <<>>
    ELSE \A i \in 1..Len(children[t]) : proc_id[children[t][i]] # wait[t].pid
\* a child of t matches the pid and has not exited
RunningMatch(t) ==
    \E i \in 1..Len(children[t]) :
        /\ wait[t].pid <= 0 \/ proc_id[children[t][i]] = wait[t].pid
        /\ tstate[children[t][i]] = "Running"

\* C1: a blocking wait_pid on the id clone returned, once that child has
\* exited with status s, eventually returns the id; a wait_pid that returns a
\* positive id returns the id of a child that has exited (the one asked for
\* when pid > 0), and *exit_code_ptr holds s << 8 when the pointer is non-null.
C1_WaitReturnsChild ==
    /\ \A t \in Tids, c \in Tids :
        (/\ pc[t] \in {"wait_scan", "wait_join"}
         /\ wait[t].pid = c
         /\ ~HasWNOHANG(wait[t].opt)
         /\ c \in SeqToSet(children[t])
         /\ tstate[c] = "Exited")
        ~> (last.task = t /\ last.sys = "wait4" /\ last.ret = c)
    /\ [][\A t \in Tids :
            (WaitReturns(t) /\ last'.ret > 0) =>
                /\ tstate[last'.ret] = "Exited"
                /\ (wait[t].pid > 0 => last'.ret = wait[t].pid)
                /\ last'.status = IF wait[t].ptr # NullPtr
                                  THEN exit_code[last'.ret] * 256
                                  ELSE NotWritten]_vars

C1_Witness ==
    \E t \in Tids :
        /\ pc[t] = "wait_finish"
        /\ wait[t].pid > 0
        /\ ~HasWNOHANG(wait[t].opt)
        /\ wait[t].answer_id = wait[t].pid
        /\ wait[t].status = 256

\* C2: wait_pid with pid > 0 and WNOHANG never blocks on a child that is
\* still running: it is not left waiting inside join.
C2_NoHangNeverBlocks ==
    \A t \in Tids :
        (pc[t] = "wait_join" /\ HasWNOHANG(wait[t].opt))
            => tstate[ScanChild(t)] = "Exited"

\* C3: wait_pid returns -1 whenever no child matches the request, whatever
\* the flags, and returns 0 only with WNOHANG and a matching running child.
C3_NoChildIsFailure ==
    [][\A t \in Tids :
        WaitReturns(t) =>
            /\ (NoMatch(t) => last'.ret = -1)
            /\ (last'.ret = 0 => HasWNOHANG(wait[t].opt) /\ RunningMatch(t))]_vars

\* C4: the children lock of a task is not held while the task is yielded or
\* blocked in join inside wait_pid.
C4_NoLockWhileBlocked ==
    \A t \in Tids :
        (\/ pc[t] = "wait_yield"
         \/ pc[t] = "wait_join" /\ ~join_returns(ScanChild(t)))
            => ~childrenLocked[t]

\* C5: a successful clone_task appends exactly one entry, the new task, to
\* the caller's children list and returns the new task's process id, which
\* differs from the caller's.
C5_CloneAppendsChild ==
    [][\A t \in Tids, st \in {0, 1} :
        (clone_task(t, st, TRUE) /\ AspaceFree(t)) =>
            /\ Len(children'[t]) = Len(children[t]) + 1
            /\ children'[t] = Append(children[t], last'.ret)
            /\ last'.task = t /\ last'.sys = "clone"
            /\ tstate[last'.ret] = "Unused" /\ tstate'[last'.ret] = "Running"
            /\ proc_id'[last'.ret] = last'.ret
            /\ last'.ret # proc_id[t]]_vars

C5_Witness ==
    \E t \in Tids :
        /\ last.task = t /\ last.sys = "clone" /\ last.ret > 0
        /\ Len(children[t]) >= 2
        /\ children[t][Len(children[t])] = last.ret

\* C6: when duplicating the address space fails, clone returns -1, no task is
\* spawned, and the caller's children list and address space are unchanged.
C6_CloneFailureLeavesNothing ==
    [][\A t \in Tids, st \in {0, 1} :
        (clone_task(t, st, FALSE) /\ AspaceFree(t)) =>
            /\ last' = [task |-> t, sys |-> "clone", ret |-> -1,
                        status |-> NotWritten]
            /\ tstate' = tstate /\ pc' = pc
            /\ children' = children
            /\ aspace' = aspace /\ aspaceOf' = aspaceOf /\ umem' = umem]_vars

C6_Witness ==
    /\ last.sys = "clone" /\ last.ret = -1
    /\ nextTid > MainTid + 1
    /\ tstate[nextTid - 1] = "Unused"
    /\ children[last.task] # <<>>

\* C7 as claimed: a task made by clone_task is in the children list of its
\* creator, exactly once and in no other, until a wait_pid returns its id,
\* and in no children list after.
C7_InCreatorListUntilReaped ==
    \A c \in Tids :
        Cloned(c) =>
            IF c \in reaped THEN ListsOf(c) = {}
            ELSE ListsOf(c) = {parent[c]} /\ Occurrences(parent[c], c) = 1

\* C7 amended: the same, as long as the creator's task record exists; once
\* the creator's record is destroyed its children list is gone with it, and
\* the task is in no children list.
C7_InCreatorListWhileCreatorExists ==
    \A c \in Tids :
        Cloned(c) =>
            IF c \in reaped \/ tstate[parent[c]] = "Dropped"
            THEN ListsOf(c) = {}
            ELSE ListsOf(c) = {parent[c]} /\ Occurrences(parent[c], c) = 1

C7_Witness ==
    \E c \in Tids, d \in Tids :
        /\ c # d /\ Cloned(c) /\ Cloned(d)
        /\ c \in reaped
        /\ parent[d] = parent[c]
        /\ d \in SeqToSet(children[parent[d]])

\* C8: exec by a task whose address-space handle has a reference count above
\* 1 returns an error, unmaps nothing, does not flush the TLB, and leaves the
\* task's name and saved user context as they were.
C8_SharedExecRejected ==
    [][\A t \in Tids, p \in ExecTargets, u \in BOOLEAN, l \in BOOLEAN :
        (/\ exec(t, p, u, l)
         /\ AspaceFree(t)
         /\ strong_count(aspaceOf[t]) > 1) =>
            /\ last' = [task |-> t, sys |-> "execve", ret |-> -1,
                        status |-> NotWritten]
            /\ aspace' = aspace
            /\ tlb_flushes' = tlb_flushes
            /\ name' = name /\ uctx' = uctx]_vars

C8_Witness ==
    \E t \in Tids :
        /\ last = [task |-> t, sys |-> "execve", ret |-> -1, status |-> NotWritten]
        /\ tstate[t] = "Running"
        /\ strong_count(aspaceOf[t]) > 1

\* C9: when the ELF load fails after the user areas were unmapped, exec
\* returns an error, the old image is not mapped again, and the task's name
\* and saved user context are those it had before the call.
C9_FailedLoadKeepsContext ==
    [][\A t \in Tids, p \in ExecTargets :
        (/\ exec(t, p, TRUE, FALSE)
         /\ AspaceFree(t)
         /\ strong_count(aspaceOf[t]) = 1) =>
            /\ last' = [task |-> t, sys |-> "execve", ret |-> -1,
                        status |-> NotWritten]
            /\ aspace'[aspaceOf[t]].areas.kind \in {"none", "partial"}
            /\ tlb_flushes' = tlb_flushes + 1
            /\ name'[t] = name[t] /\ uctx'[t] = uctx[t]]_vars

C9_Witness ==
    \E t \in Tids :
        /\ last = [task |-> t, sys |-> "execve", ret |-> -1, status |-> NotWritten]
        /\ tlb_flushes > 0
        /\ tstate[t] = "Running"
        /\ aspace[aspaceOf[t]].areas.kind \in {"none", "partial"}
        /\ name[t] = <<"userboot">>

\* C10: a task that has exited with a non-null clear_child_tid has had zero
\* written to that address (the write precedes the Exited state on every
\* terminating path).
C10_ExitClearsChildTid ==
    \A t \in Tids :
        (tstate[t] = "Exited" /\ clear_child_tid[t] # NullPtr)
            => umem[aspaceOf[t]][clear_child_tid[t]] = 0
\* C11: set_heap_top(0) leaves the logical top, the mapped top and the
\* mappings as they are, asks the address space for nothing, and returns the
\* current logical top.
C11_QueryIsPure ==
    [][\A ok \in BOOLEAN :
        set_heap_top(0, ok) =>
            /\ heap_top' = heap_top
            /\ actual_heap_top' = actual_heap_top
            /\ heap_map' = heap_map
            /\ heap_call'.request.op = "none"
            /\ heap_call'.ret = heap_top]_vars

C11_Witness ==
    /\ heap_call.top = 0
    /\ heap_call.ret = heap_top
    /\ heap_top > USER_HEAP_BOTTOM
    /\ heap_top # actual_heap_top

\* C12: a set_heap_top call with a non-zero argument inside the window whose
\* address-space operation succeeds returns its argument; after calls of
\* that kind only, set_heap_top(0) returns the last accepted argument; and
\* while their arguments have not decreased, the pages mapped through
\* map_alloc are exactly those of [bottom, align_up_4k(logical top)), each
\* mapped once.
C12_GrowthTracksTop ==
    /\ [][\A top \in HeapTops \ {0}, ok \in BOOLEAN :
            (set_heap_top(top, ok) /\ InWindow(top) /\ heap_call'.request.ok)
                => heap_call'.ret = top]_vars
    /\ [][\A ok \in BOOLEAN :
            (set_heap_top(0, ok) /\ heap_hist.clean /\ heap_hist.accepted # 0)
                => heap_call'.ret = heap_hist.accepted]_vars
    /\ [](heap_hist.growing =>
            \A p \in HeapPageIds :
                heap_map[p] = IF PageAddr(p) < ((heap_top + PageSize - 1) \div PageSize) * PageSize
                              THEN 1 ELSE 0)

C12_Witness ==
    /\ heap_hist.growing
    /\ heap_hist.accepted > USER_HEAP_BOTTOM + PageSize
    /\ heap_hist.accepted % PageSize # 0
    /\ heap_call.top = 0
    /\ heap_call.ret = heap_hist.accepted
    /\ heap_map[1] = 1

\* C13: whatever the arguments of the set_heap_top calls and the outcomes of
\* map_alloc and unmap, the logical top is within [bottom, bottom + max], the
\* mapped top is 4 KiB aligned, and the mapped top is not below the logical
\* top.
C13_HeapTopsInBounds ==
    /\ USER_HEAP_BOTTOM <= heap_top
    /\ heap_top <= USER_HEAP_BOTTOM + USER_HEAP_SIZE
    /\ actual_heap_top % PageSize = 0
    /\ actual_heap_top >= heap_top

C13_Witness ==
    /\ heap_call.request.op = "unmap"
    /\ ~heap_call.request.ok
    /\ heap_top = USER_HEAP_BOTTOM
    /\ actual_heap_top = USER_HEAP_BOTTOM + USER_HEAP_SIZE
    /\ ~heap_hist.clean

\* C14: a set_heap_top call that returns None leaves the logical top and the
\* mapped top exactly as they were before the call.
C14_FailureChangesNothing ==
    [][\A top \in HeapTops, ok \in BOOLEAN :
        (set_heap_top(top, ok) /\ heap_call'.ret = None) =>
            /\ heap_top' = heap_top
            /\ actual_heap_top' = actual_heap_top]_vars
\* C15: on a TimeStat created at tick start, after each call of a sequence
\* that alternates enter_uspace, enter_kspace, enter_uspace, ... with tick
\* readings that never decrease, user_time + kernel_time as info() reports
\* them equals the tick of that call minus start.
C15_TimeSumsToElapsed ==
    (time_log.calls > 0 /\ time_log.alternating /\ time_log.monotone)
        => /\ ~time_log.panicked
           /\ info[1] + info[2] = ticks - time_log.start

C15_Witness ==
    /\ time_log.calls >= 3
    /\ time_log.alternating /\ time_log.monotone
    /\ time_log.start > 0
    /\ user_time > 0 /\ kernel_time > 0
    /\ ticks = MaxTick

\* C16: when the tick source returns less than the last recorded crossing,
\* enter_uspace and enter_kspace add zero to the counter: the kernel does not
\* abort and the counter keeps its value.
C16_BackwardTickAddsZero ==
    [][\A now \in Ticks :
        /\ (enter_uspace(now) /\ now < last_kernel_time)
                => (~time_log'.panicked /\ kernel_time' = kernel_time)
        /\ (enter_kspace(now) /\ now < last_user_time)
                => (~time_log'.panicked /\ user_time' = user_time)]_vars
\* C17: for a task with a task extension, the ticks between the pre-trap
\* hook and the post-trap hook of a trap are added to its kernel-time counter,
\* and the ticks between a post-trap hook and the next pre-trap hook to its
\* user-time counter.
C17_TrapTimeIsKernelTime ==
    [][\A now \in Ticks :
        /\ (run_post_hook(now) /\ trap.task_ext)
                => /\ kernel_time' = kernel_time + (now - ticks)
                   /\ user_time' = user_time
        /\ (run_pre_hook(now) /\ trap.task_ext /\ time_log.calls > 0)
                => /\ user_time' = user_time + (now - ticks)
                   /\ kernel_time' = kernel_time]_vars

\* C18: a system-call dispatch runs the pre-trap hook once before the
\* handler and the post-trap hook once after it, so that one enter-kernel and
\* one enter-user crossing are recorded for it.
C18_SyscallRunsHooks ==
    [][\A args \in TrapArgs("SYSCALL") :
        (handle_syscall(args) /\ registry["SYSCALL"] # <<>>) =>
            /\ trap'.calls = <<Called("BEFORE_ALL_TRAPS", 1, <<>>),
                               Called("SYSCALL", 1, args),
                               Called("AFTER_ALL_TRAPS", 1, <<>>)>>
            /\ time_log'.calls = time_log.calls + 2]_vars

\* C19: an IRQ or page-fault dispatch that finds no registered handler has
\* invoked no handler, returned false, and run the first pre-trap hook before
\* and the first post-trap hook after.
C19_UnhandledTrapRunsHooks ==
    (trap.pc = "idle" /\ trap.kind \in TrapKinds /\ registry[trap.kind] = <<>>)
        => /\ trap.calls = <<Called("BEFORE_ALL_TRAPS", 1, <<>>),
                             Called("AFTER_ALL_TRAPS", 1, <<>>)>>
           /\ trap.ret = Unhandled

C19_Witness ==
    /\ trap.pc = "idle"
    /\ trap.kind = "PAGE_FAULT"
    /\ registry["PAGE_FAULT"] = <<>>
    /\ Len(registry["BEFORE_ALL_TRAPS"]) = MaxHandlers
    /\ trap.ret = Unhandled
    /\ Len(trap.calls) = 2

\* C20: a dispatch of a trap kind with one or more registered handlers has
\* invoked the first of them once, with the trap's arguments, and no other,
\* and returned what it returned.
C20_FirstHandlerOnly ==
    (trap.pc = "idle" /\ trap.kind \in Slices /\ registry[trap.kind] # <<>>)
        => /\ SelectSeq(trap.calls, LAMBDA c : c.slice = trap.kind)
                = <<Called(trap.kind, 1, trap.args)>>
           /\ trap.ret = Result(<<trap.kind, 1>>, trap.args)

C20_Witness ==
    /\ trap.pc = "idle"
    /\ trap.kind = "IRQ"
    /\ Len(registry["IRQ"]) = MaxHandlers
    /\ trap.args = <<9>>
    /\ trap.ret = Result(<<"IRQ", 1>>, <<9>>)
    /\ Len(trap.calls) = 3
\* C21: a system-call dispatch that finds the SYSCALL slice empty is treated
\* as unhandled: it returns a result to the trap path and does not panic.
C21_EmptySyscallUnhandled ==
    (trap.kind = "SYSCALL" /\ registry["SYSCALL"] = <<>>)
        => /\ trap.pc = "idle"
           /\ trap.ret = Unhandled
\* C22: a user task created by spawn_user_task has its own task id as
\* process id and no parent: parent_id() is None and no children list holds it.
C22_FirstTaskHasNoParent ==
    [][spawn_user_task =>
        LET t == nextTid IN
            /\ proc_id'[t] = t
            /\ parent'[t] = NoTask
            /\ parent_id(t)' = NoTask
            /\ \A u \in Tids : t \notin SeqToSet(children'[u])]_vars

\* C23: the parent reference of a task does not own the parent: parent_id()
\* is the creator's id as long as the creator's record exists and None once
\* it is destroyed, and ownership (the children lists) only runs from a task
\* to tasks created after it, so it has no cycle.
C23_ParentIsWeak ==
    /\ \A c \in Tids :
        (tstate[c] \in {"Running", "Exited"} /\ parent[c] \in Tids) =>
            /\ tstate[parent[c]] # "Unused"
            /\ parent_id(c) = IF tstate[parent[c]] = "Dropped"
                              THEN NoTask ELSE parent[c]
    /\ \A u \in Tids : \A c \in SeqToSet(children[u]) : c > u

\* a cloned task outlives the record of the task that created it
C23_Witness ==
    \E c \in Tids :
        /\ tstate[c] = "Running"
        /\ parent[c] \in Tids
        /\ tstate[parent[c]] = "Dropped"
        /\ parent_id(c) = NoTask
\* the length of the record of a directory entry, the offset of the k-th
\* record of a listing, and the record the claim describes for it
RecLen(entry) == FIXED_SIZE + Len(entry.name) + 1
RECURSIVE RecordOffset(_, _)
RecordOffset(entries, k) ==
    IF k = 1 THEN 0 ELSE RecordOffset(entries, k - 1) + RecLen(entries[k - 1])
ListingSize(entries) == RecordOffset(entries, Len(entries) + 1)
ListingWritten ==
    /\ getdents.pc \in {"done", "panicked"}
    /\ getdents.ret # 0 - 1
    /\ getdents.len >= ListingSize(getdents.entries) + FIXED_SIZE

\* C24: a listing written into a zero-filled buffer that is large enough
\* holds one record per entry in listing order (d_reclen = 19 + name length
\* + 1, d_off the offset of the next record, the type tag, the name and its
\* NUL), then a record with d_reclen 0, and the call returns the sum of the
\* d_reclen fields.
C24_ListingLayout ==
    ListingWritten =>
        LET entries == getdents.entries IN
        /\ getdents.pc = "done"
        /\ getdents.ret = ListingSize(entries)
        /\ \A k \in 1..Len(entries) :
            LET o == RecordOffset(entries, k)
                d == DirEnt_read(dir_mem, o)
            IN /\ d.d_reclen = RecLen(entries[k])
               /\ d.d_off = o + RecLen(entries[k])
               /\ d.d_type = FileType_from(entries[k].ft)
               /\ ReadAt(dir_mem, o + FIXED_SIZE, Len(entries[k].name) + 1)
                        = Append(entries[k].name, 0)
        /\ DirEnt_read(dir_mem, ListingSize(entries)).d_reclen = 0

\* C25: sys_getdents64 with len >= 19 writes no byte at an offset >= len of
\* the caller's buffer.
C25_NoWriteBeyondLen ==
    getdents.len >= FIXED_SIZE => getdents.written <= getdents.len
\* the LOAD headers of a file in file order
LoadsOf(file) == SelectSeq(file.phs, LAMBDA ph : ph.type = "Load")

\* C26: get_elf_base_addr returns the hint for every file that is not an
\* Executable; for an Executable it returns 0 when the first LOAD header has
\* a non-zero virtual address and an error when that address is 0 or the
\* file has no LOAD header.
C26_BaseAddr ==
    elf.op = "get_elf_base_addr" =>
        LET loads == LoadsOf(elf.file) IN
        IF elf.file.type # "Executable" THEN elf.ret = Ok(elf.base)
        ELSE IF loads # <<>> /\ Head(loads).virtual_addr # 0 THEN elf.ret = Ok(0)
        ELSE ~elf.ret.ok

\* an Executable whose first header is not a LOAD and whose hint is ignored
C26_Witness ==
    /\ elf.op = "get_elf_base_addr"
    /\ elf.file.type = "Executable"
    /\ Len(elf.file.phs) = 2
    /\ elf.file.phs[1].type = "Dynamic" /\ elf.file.phs[1].virtual_addr = 0
    /\ elf.file.phs[2].type = "Load" /\ elf.file.phs[2].virtual_addr # 0
    /\ elf.base # 0
    /\ elf.ret = Ok(0)

\* a file with the right magic and one LOAD header, whose file offset and
\* address agree modulo the page size, which lies inside the file and which
\* get_elf_base_addr accepts
OneLoadFile(file, hint) ==
    /\ file.magic
    /\ Len(LoadsOf(file)) = 1
    /\ get_elf_base_addr(file, hint).ok
    /\ LET ph == Head(LoadsOf(file)) IN
        /\ ph.offset % PAGE_SIZE_4K = ph.virtual_addr % PAGE_SIZE_4K
        /\ ph.offset + ph.file_size <= file.input_len

\* C27: for a file with one LOAD header of in-memory size n,
\* get_elf_segments returns one segment: its start is the declared start
\* rounded down to a page (front_pad lower), its length is
\* align_up_4k(n + front_pad), its flags are USER plus READ / WRITE / EXECUTE
\* as the header has them.
C27_OneSegment ==
    (elf.op = "get_elf_segments" /\ OneLoadFile(elf.file, elf.base)) =>
        LET ph == Head(LoadsOf(elf.file))
            start == ph.virtual_addr + get_elf_base_addr(elf.file, elf.base).value
            front_pad == start % PAGE_SIZE_4K
        IN /\ ~elf.ret.panic
           /\ Len(elf.ret.segments) = 1
           /\ elf.ret.segments[1].vaddr = start - front_pad
           /\ elf.ret.segments[1].size = align_up_4k(ph.mem_size + front_pad)
           /\ elf.ret.segments[1].flags =
                {"USER"} \cup {fl \in {"READ", "WRITE", "EXECUTE"} :
                    \/ fl = "READ" /\ "R" \in ph.flags
                    \/ fl = "WRITE" /\ "W" \in ph.flags
                    \/ fl = "EXECUTE" /\ "X" \in ph.flags}

\* C28: the backing bytes of each returned segment are as long as the
\* segment is in memory (file bytes from the page boundary, then zeros),
\* for every LOAD header with mem_size >= file_size.
C28_DataFillsSegment ==
    (elf.op = "get_elf_segments" /\ ~elf.ret.panic) =>
        \A k \in 1..Len(elf.ret.segments) :
            LET ph == LoadsOf(elf.file)[k]
                seg == elf.ret.segments[k]
            IN ph.mem_size >= ph.file_size =>
                    seg.data.to - seg.data.from = seg.size
\* the entries of the relocation sections a file has
RelocCount(file) == Len(file.rela_dyn.entries) + Len(file.rela_plt.entries)
UsesSymbol(type) ==
    type \in {R_X86_64_64, R_X86_64_PC32, R_X86_64_GLOB_DAT, R_X86_64_JUMP_SLOT}
Handled(type) == UsesSymbol(type) \/ type \in {R_X86_64_RELATIVE, R_X86_64_IRELATIVE}

\* C29: get_relocate_pairs aborts on a wrong magic number, on a relocation
\* of an unsupported type, on a relocation against an undefined symbol and
\* on relocation entries without a dynamic symbol table; a list it returns
\* has one pair per relocation entry of the file.
C29_NoPartialResult ==
    elf.op = "get_relocate_pairs" =>
        LET file == elf.file
            entries == file.rela_dyn.entries \o file.rela_plt.entries
        IN /\ ~file.magic => elf.ret.panic
           /\ (\E k \in 1..Len(entries) : ~Handled(entries[k].type))
                    => elf.ret.panic
           /\ (\E k \in 1..Len(entries) :
                    UsesSymbol(entries[k].type) /\ entries[k].sym = 0)
                    => elf.ret.panic
           /\ (entries # <<>> /\ ~file.dynsym.present) => elf.ret.panic
           /\ ~elf.ret.panic => Len(elf.ret.pairs) = RelocCount(file)
\* the threads whose exchange succeeded
Winners == {t \in Threads : callers[t].won}

\* C30: the value of a LazyInit shared by concurrent init_once and call_once
\* callers is stored at most once: no more than one exchange succeeds, and
\* exactly one has once the cell is initialized; an init_once that finds the
\* cell initialized panics, a call_once that finds it initialized returns
\* None and its closure is not called.
C30_WrittenAtMostOnce ==
    /\ writes <= 1
    /\ Cardinality(Winners) <= 1
    /\ inited => Cardinality(Winners) = 1
    /\ data # Uninit => \E t \in Winners : data = ValueOf(t)
    /\ \A t \in Threads :
        (callers[t].pc \in {"done", "panicked"} /\ callers[t].saw_inited) =>
            /\ ~callers[t].won
            /\ ~callers[t].closure_called
            /\ callers[t].op = "init_once" => callers[t].pc = "panicked"
            /\ callers[t].op = "call_once" =>
                    callers[t].pc = "done" /\ callers[t].ret = <<"None">>

\* one caller has stored its value; an init_once and a call_once that came
\* later have been turned away
C30_Witness ==
    /\ writes = 1
    /\ \E t, u, w \in Threads :
        /\ callers[t].pc = "done" /\ callers[t].won /\ data = ValueOf(t)
        /\ callers[u].op = "init_once" /\ callers[u].saw_inited
        /\ callers[u].pc = "panicked"
        /\ callers[w].op = "call_once" /\ callers[w].saw_inited
        /\ callers[w].pc = "done" /\ ~callers[w].closure_called

\* how often f occurs in a sequence of invocations
Times(f, log) == Cardinality({k \in 1..Len(log) : log[k] = f})

\* the vector after n runs of init_vector
Pushed(n) == [k \in 1..(3 * n) |-> ((k - 1) % 3) + 1]

\* C31: when the test body starts every registered constructor has run
\* exactly once, in section order; every run of a constructor, by startup
\* or by hand, adds its effects once more in program order; and with no
\* constructor registered call_ctors returns without invoking anything.
C31_CtorsRunOnce ==
    /\ (ctor_pc.pc = "main" /\ ctor_pc.manual = 0) =>
            /\ ctor_log = init_array
            /\ \A f \in Registered : Times(f, ctor_log) = 1
    /\ INIT_NUM = 20 * Times("set_init_num", ctor_log)
    /\ INIT_VEC = Pushed(Times("init_vector", ctor_log))
    /\ Len(ctor_log) >= Len(init_array) =>
            SubSeq(ctor_log, 1, Len(init_array)) = init_array
    /\ init_array = <<>> => ctor_log = <<>> /\ ctor_pc.pc \in {"startup", "main", "call_ctors"}

\* test_ctor.rs: both constructors ran before main, and init_vector was
\* then called by hand
C31_Witness ==
    /\ Registered = CtorNames
    /\ ctor_pc.pc = "main"
    /\ ctor_pc.manual = 1
    /\ INIT_NUM = 20
    /\ INIT_VEC = <<1, 2, 3, 1, 2, 3>>

\* test_empty.rs: call_ctors has returned with nothing registered
C31_EmptyReturns ==
    init_array = <<>> /\ ctor_pc.pc = "main" /\ ctor_pc.manual = 1

\* task t is inside a wait_pid for any child, without WNOHANG
WaitsForAny(t) ==
    /\ pc[t] \in {"wait_scan", "wait_yield", "wait_finish"}
    /\ wait[t].pid <= 0
    /\ wait[t].opt % (2 * WNOHANG) < WNOHANG

\* C32: wait_pid with pid <= 0 passes over a child only when it sees it not
\* Exited, so the id it returns is that of the first child, in list order,
\* its last scan saw Exited, never of a running child; without WNOHANG a
\* scan that saw children and none Exited yields and scans again from the
\* front; and once a child has exited the call returns, the scheduler
\* being fair.
C32_AnyChildFirstExited ==
    /\ [][\A t \in Tids :
            /\ (wait_scan(t) /\ wait[t].pid <= 0 /\ wait'[t].idx = wait[t].idx + 1)
                    => tstate[ScanChild(t)] # "Exited"
            /\ (WaitReturns(t) /\ wait[t].pid <= 0 /\ last'.ret > 0) =>
                    /\ wait[t].exit_task_id < Len(children[t])
                    /\ last'.ret = proc_id[children[t][wait[t].exit_task_id + 1]]
                    /\ tstate[last'.ret] = "Exited"
                    /\ \A j \in 1..wait[t].exit_task_id :
                            children[t][j] # last'.ret
            /\ (WaitsForAny(t) /\ wait_scan(t) /\ wait[t].idx >= Len(children[t])
                    /\ children[t] # <<>>)
                    => pc'[t] = "wait_yield"
            /\ (WaitsForAny(t) /\ wait_resume(t))
                    => pc'[t] = "wait_scan" /\ wait'[t].idx = 0]_vars
    /\ \A t \in Tids :
        (WaitsForAny(t) /\ \E i \in 1..Len(children[t]) : tstate[children[t][i]] = "Exited")
        ~> (pc[t] = "user" /\ last.task = t /\ last.sys = "wait4" /\ last.ret > 0)

\* a wait for any child that scanned twice: the first child was running
\* throughout, the second had exited by the later scan
C32_Witness ==
    \E t \in Tids :
        /\ pc[t] = "wait_finish"
        /\ wait[t].pid <= 0
        /\ wait[t].opt % (2 * WNOHANG) < WNOHANG
        /\ wait[t].answer_status = "Exited"
        /\ wait[t].exit_task_id = 1
        /\ Len(children[t]) = 2
        /\ tstate[children[t][1]] = "Running"

\* C33: after every successful set_heap_top with a non-zero argument the
\* mapped top is align_up_4k of the logical top; the call has unmapped
\* exactly [align_up_4k(top), old mapped top) when it shrank the mapping and
\* mapped exactly [old mapped top, align_up_4k(top)) when it grew it.
C33_MappedTopIsAlignedTop ==
    (heap_call.top # 0 /\ heap_call.ret # None) =>
        /\ actual_heap_top = align_up_4k(heap_top)
        /\ heap_call.request.op = "unmap" =>
                /\ heap_call.request.start = align_up_4k(heap_call.top)
                /\ heap_call.request.size > 0
                /\ heap_call.request.start + heap_call.request.size > actual_heap_top
        /\ heap_call.request.op = "map_alloc" =>
                /\ heap_call.request.start + heap_call.request.size
                        = align_up_4k(heap_call.top)
                /\ heap_call.request.size > 0

\* the same, as long as no address-space operation has failed
C33_WhileNothingFailed == heap_hist.clean => C33_MappedTopIsAlignedTop

\* C34: a task that runs in user mode does not hold the lock of its address
\* space, after a successful exec in particular, so no operation of the
\* task that takes the lock finds it held by the task itself.
C34_ExecLeavesLockFree ==
    \A t \in Tids :
        /\ InUser(t) => AspaceFree(t)
        /\ pc[t] # "aspace_stuck"

\* the heap pages mapped in the task's address space, and those its heap
\* manager takes for mapped
MappedPages == {p \in HeapPageIds : heap_map[p] > 0}
ManagedPages == {p \in HeapPageIds : PageAddr(p) < actual_heap_top}

\* C35: whenever a task runs in user mode, a new task made by clone_task and
\* a task back from exec included, the heap pages mapped in its address
\* space are exactly those of [bottom, mapped top) of its heap manager, none
\* of them mapped twice.
C35_HeapPagesAreManaged ==
    /\ MappedPages = ManagedPages
    /\ \A p \in HeapPageIds : heap_map[p] <= 1

\* C36: every address-space handle a task extension holds is held by that
\* one task (the handle of a task is not that of its parent or of any
\* other task), and no exec meets a handle with a reference count above 1.
C36_AspaceSoleOwner ==
    /\ [](\A t \in Tids : aspaceOf[t] # NoTask => strong_count(aspaceOf[t]) = 1)
    /\ [][\A t \in Tids, p \in ExecTargets, u \in BOOLEAN, l \in BOOLEAN :
            (exec(t, p, u, l) /\ AspaceFree(t)) => ~aspace_shared(aspaceOf[t])]_vars

\* a task made by clone_task has called exec with success while its parent
\* runs on
C36_Witness ==
    \E t \in Tids, c \in Tids :
        /\ parent[c] = t
        /\ tstate[t] = "Running" /\ tstate[c] = "Running"
        /\ aspaceOf[t] # aspaceOf[c]
        /\ last = [task |-> c, sys |-> "execve", ret |-> 0, status |-> NotWritten]

\* C37: the entry wait_pid removes from the children list is the child whose
\* id it returns: from the scan that found the child to the removal the
\* recorded index designates that child, the removal drops that entry and
\* no other, and the id returned is no longer in the list.
C37_RemovesReportedChild ==
    /\ [](\A t \in Tids :
            (pc[t] = "wait_finish" /\ wait[t].answer_status = "Exited") =>
                /\ wait[t].exit_task_id < Len(children[t])
                /\ proc_id[children[t][wait[t].exit_task_id + 1]] = wait[t].answer_id)
    /\ [][\A t \in Tids :
            (WaitReturns(t) /\ last'.ret > 0) =>
                /\ Len(children'[t]) = Len(children[t]) - 1
                /\ \A c \in SeqToSet(children[t]) :
                        Occurrences(t, c)' = IF proc_id[c] = last'.ret
                                             THEN 0 ELSE Occurrences(t, c)
                /\ \A i \in 1..Len(children'[t]) :
                        children'[t][i] =
                            children[t][IF i <= wait[t].exit_task_id THEN i ELSE i + 1]]_vars

\* a wait_pid about to remove the second of two children while the first,
\* another task, has exited since the scan
C37_Witness ==
    \E t \in Tids :
        /\ pc[t] = "wait_finish"
        /\ wait[t].answer_status = "Exited"
        /\ wait[t].exit_task_id = 1
        /\ Len(children[t]) = 2
        /\ tstate[children[t][1]] = "Exited"
        /\ wait[t].pid > 0

\* C38: a reader that finds the cell initialized (is_inited returns true,
\* get returns Some, deref does not panic) finds the value completely
\* written: no reader runs between the flag being set and the data being
\* stored.
C38_ReadersSeeWrittenValue ==
    [][\A t \in Threads, op \in ReadOps :
        (lazy_read(t, op) /\ inited) => data # Uninit]_vars

\* C39: an init_once or call_once whose exchange meets a cell that is not
\* initialized claims it and goes on to store the value: it neither panics
\* nor returns None.
C39_UninitializedIsClaimed ==
    [][\A t \in Threads, spurious \in BOOLEAN :
        (lazy_exchange(t, spurious) /\ ~inited) =>
            /\ inited'
            /\ callers'[t].pc = "write"
            /\ callers'[t].won]_vars

\* the same for the exchanges that do not fail spuriously
C39_UnlessSpurious ==
    [][\A t \in Threads :
        (lazy_exchange(t, FALSE) /\ ~inited) =>
            /\ inited'
            /\ callers'[t].pc = "write"
            /\ callers'[t].won]_vars

\* C40: whatever the buffer holds on entry, the scan of the records already
\* in it does not abort: sys_getdents64 returns -1 or goes on to list the
\* entries.
C40_ScanNeverAborts ==
    [][getdents.pc = "idle" => getdents'.pc # "panicked"]_vars

====
